---- MODULE Spec2Model ----
(***************************************************************************)
(* Model of the per-celebrity vector store of celebrity-question-mining:   *)
(* FAISSIndexManager (vector_db/faiss_index.py), MetadataStore             *)
(* (vector_db/metadata_store.py), QuestionRetriever (retrieval/search.py)  *)
(* and the indexing step of the workflow graph (agent/graph.py).           *)
(*                                                                         *)
(* Python dicts are functions whose DOMAIN is the set of keys present.     *)
(* Files are dicts from the file's safe name to its content; a file whose  *)
(* write was interrupted has content [ok |-> FALSE] (it cannot be parsed). *)
(* Vectors are tuples of integers; a stored vector is the pair (num, den2) *)
(* standing for num / sqrt(den2), so that L2 normalisation, inner products *)
(* and comparisons of scores are exact (float32 rounding is not modelled). *)
(* den2 = 0 is the NaN vector numpy produces when it divides by a zero     *)
(* norm.                                                                   *)
(***************************************************************************)
EXTENDS Integers, Sequences, FiniteSets, TLC

\* ------------------------------------------------------------------ bounds
MaxVecs == 2        \* most vectors an index holds in the model
MaxTopK == 2        \* largest candidate pool asked for
MaxCycles == 2      \* most ingestion cycles behind the files a query finds
MaxQuestions == 3   \* longest batch handed to deduplicate_questions and embed_batch
MaxClusterItems == 5   \* longest batch handed to cluster_questions

\* embedding_dim=384 of the source, scaled to the width of the model's vectors
EmbeddingDim == 2

\* ------------------------------------------------------------- dict helpers
Put(f, k, v) == [x \in (DOMAIN f) \cup {k} |-> IF x = k THEN v ELSE f[x]]
Del(f, k) == [x \in (DOMAIN f) \ {k} |-> f[x]]
Get(f, k, default) == IF k \in DOMAIN f THEN f[k] ELSE default
EmptyDict == [x \in {} |-> 0]
Range(s) == {s[i] : i \in DOMAIN s}
Min(a, b) == IF a <= b THEN a ELSE b
\* Python's None where the model holds text
None == "<None>"

\* ------------------------------------------------------------------- names
\* A celebrity name is a tuple of characters.
Names == { <<"A", "l">>, <<"a", "l">> }

\* str.lower() on the characters the model uses
Lower(c) == CASE c = "A" -> "a" [] c = "B" -> "b" [] OTHER -> c
\* str.replace(" ", "_")
Underscore(c) == IF c = " " THEN "_" ELSE c
\* safe_name = celebrity_name.lower().replace(" ", "_"); the three files of a
\* name (<safe>.faiss, <safe>_size.pkl, <safe>_metadata.json) are keyed by it
SafeName(name) == [i \in DOMAIN name |-> Underscore(Lower(name[i]))]
_get_index_path(name) == SafeName(name)
_get_size_path(name) == SafeName(name)
_get_metadata_path(name) == SafeName(name)
Paths == { SafeName(n) : n \in Names }

\* ----------------------------------------------------------------- vectors
Dot(a, b) == IF Len(a) = 0 THEN 0
             ELSE LET S[i \in 0..Len(a)] == IF i = 0 THEN 0 ELSE S[i-1] + a[i] * b[i]
                  IN S[Len(a)]
Norm2(a) == Dot(a, a)
\* v / np.linalg.norm(v): the direction num scaled by 1/sqrt(den2); a zero
\* vector gives 0/0 = NaN in every component (numpy warns, it does not raise)
Normalized(v) == [num |-> v, den2 |-> Norm2(v)]
\* a vector stored as given (normalize=False)
AsGiven(v) == [num |-> v, den2 |-> 1]
IsNaN(sv) == sv.den2 = 0
Width(sv) == Len(sv.num)
\* the stored vector has Euclidean length 1
IsUnit(sv) == sv.den2 > 0 /\ Norm2(sv.num) = sv.den2

\* A score is num / sqrt(den2) with den2 > 0, NaN when den2 = 0, and the
\* filler score FAISS gives an unfilled slot (-3.4e38) when neg_inf.
Score(n, d2) == [num |-> n, den2 |-> d2, neg_inf |-> FALSE]
NegInf == [num |-> 0, den2 |-> 1, neg_inf |-> TRUE]
InnerProduct(a, b) == Score(Dot(a.num, b.num), a.den2 * b.den2)
ScoreIsNaN(s) == ~s.neg_inf /\ s.den2 = 0
SignedSq(x) == IF x >= 0 THEN x * x ELSE -(x * x)
\* s1 > s2 and s1 >= s2 on floats: false whenever a NaN is involved
ScoreGT(s1, s2) ==
    /\ ~ScoreIsNaN(s1) /\ ~ScoreIsNaN(s2)
    /\ ~s1.neg_inf
    /\ (s2.neg_inf \/ SignedSq(s1.num) * s2.den2 > SignedSq(s2.num) * s1.den2)
ScoreGE(s1, s2) ==
    /\ ~ScoreIsNaN(s1) /\ ~ScoreIsNaN(s2)
    /\ (s2.neg_inf \/ (~s1.neg_inf /\
           SignedSq(s1.num) * s2.den2 >= SignedSq(s2.num) * s1.den2))

\* A threshold is the rational num/den; as a score it is num / sqrt(den^2).
Threshold(n, d) == [num |-> n, den |-> d]
ThresholdScore(t) == Score(t.num, t.den * t.den)

\* ---------------------------------------------------------------- FAISS
\* faiss.IndexFlatIP(d): the dimension and the rows added so far
IndexFlatIP(dim) == [d |-> dim, xb |-> <<>>]
ntotal(index) == Len(index.xb)

\* index.search(q, k) of IndexFlatIP for one query: the k best rows by inner
\* product, best first, equal scores by ascending id; a row whose score is NaN
\* never enters the result heap; slots left over hold id -1 and the filler score.
Better(index, q, i, j) ==
    LET si == InnerProduct(index.xb[i], q)
        sj == InnerProduct(index.xb[j], q)
    IN ScoreGT(si, sj) \/ (~ScoreGT(sj, si) /\ i < j)
Rankable(index, q) ==
    { i \in 1..ntotal(index) : ~ScoreIsNaN(InnerProduct(index.xb[i], q)) }
\* position (1-based) of row i among the rankable rows
RankOf(index, q, i) ==
    1 + Cardinality({ j \in Rankable(index, q) : j # i /\ Better(index, q, j, i) })
RowAtRank(index, q, r) ==
    CHOOSE i \in Rankable(index, q) : RankOf(index, q, i) = r
IndexSearch(index, q, k) ==
    [r \in 1..k |->
        IF r <= Cardinality(Rankable(index, q))
        THEN LET i == RowAtRank(index, q, r)
             IN [id |-> i - 1, score |-> InnerProduct(index.xb[i], q)]
        ELSE [id |-> -1, score |-> NegInf]]

\* --------------------------------------------------------------- files
\* content of a readable .faiss file, of a readable _size.pkl, of a readable
\* _metadata.json, and of a file left by an interrupted write
IndexFile(index) == [ok |-> TRUE, d |-> index.d, xb |-> index.xb]
SizeFile(n) == [ok |-> TRUE, n |-> n]
Partial == [ok |-> FALSE]

\* str(k) and int(s) for the ids of the model
Digits == <<"0", "1", "2", "3", "4", "5", "6", "7", "8", "9">>
Str(k) == Digits[k + 1]
ParseInt(s) == (CHOOSE i \in DOMAIN Digits : Digits[i] = s) - 1

\* ------------------------------------------------- FAISSIndexManager
\* __init__: no index in memory
NewManager == [indexes |-> EmptyDict, index_sizes |-> EmptyDict]

\* create_index: a fresh empty index replaces whatever the name held; size 0
create_index(fm, name, embedding_dim) ==
    [indexes |-> Put(fm.indexes, name, IndexFlatIP(embedding_dim)),
     index_sizes |-> Put(fm.index_sizes, name, 0)]

\* Faulty variant of load_index (the size side-car is never read: the name
\* keeps the size it had, or none)
load_index_forget_size(fm, name, index_files, size_files) ==
    LET ip == _get_index_path(name)
    IN IF ip \notin DOMAIN index_files THEN [fm |-> fm, ret |-> FALSE]
       ELSE IF ~index_files[ip].ok THEN [fm |-> fm, ret |-> FALSE]
       ELSE [fm |-> [indexes |-> Put(fm.indexes, name,
                                     [d |-> index_files[ip].d, xb |-> index_files[ip].xb]),
                     index_sizes |-> fm.index_sizes],
             ret |-> TRUE]

\* load_index: False when the .faiss file is missing; any exception while
\* reading is caught and also answered with False. The index is put in
\* self.indexes before the size side-car is read, so a side-car that cannot be
\* unpickled leaves the loaded index in memory with its old (or no) size.
load_index(fm, name, index_files, size_files) ==
    LET ip == _get_index_path(name)
        sp == _get_size_path(name)
    IN IF ip \notin DOMAIN index_files THEN [fm |-> fm, ret |-> FALSE]
       ELSE IF ~index_files[ip].ok THEN [fm |-> fm, ret |-> FALSE]
       ELSE LET index == [d |-> index_files[ip].d, xb |-> index_files[ip].xb]
                idx == Put(fm.indexes, name, index)
            IN IF sp \in DOMAIN size_files
               THEN IF size_files[sp].ok
                    THEN [fm |-> [indexes |-> idx,
                                  index_sizes |-> Put(fm.index_sizes, name, size_files[sp].n)],
                          ret |-> TRUE]
                    ELSE [fm |-> [indexes |-> idx, index_sizes |-> fm.index_sizes],
                          ret |-> FALSE]
               ELSE [fm |-> [indexes |-> idx,
                             index_sizes |-> Put(fm.index_sizes, name, ntotal(index))],
                     ret |-> TRUE]

\* The points at which a write of save_index can fail (or the process stop):
\*   index_write  faiss.write_index fails part way: the .faiss file is partial
\*   size_open    the .faiss file is written, open(size_path, 'wb') fails
\*   size_write   open(size_path, 'wb') has truncated the side-car, dump fails
SaveIndexFaults == {"none", "index_write", "size_open", "size_write"}

\* save_index: returns silently when the name is not in self.indexes;
\* otherwise writes the .faiss file in place, then the side-car in place, and
\* re-raises whatever fails.
save_index(fm, name, index_files, size_files, fault) ==
    LET ip == _get_index_path(name)
        sp == _get_size_path(name)
    IN IF name \notin DOMAIN fm.indexes
       THEN [index_files |-> index_files, size_files |-> size_files, raised |-> "", wrote |-> FALSE]
       ELSE IF fault = "index_write"
       THEN [index_files |-> Put(index_files, ip, Partial), size_files |-> size_files,
             raised |-> "IOError", wrote |-> FALSE]
       ELSE LET written == Put(index_files, ip, IndexFile(fm.indexes[name]))
            IN IF fault = "size_open"
               THEN [index_files |-> written, size_files |-> size_files,
                     raised |-> "IOError", wrote |-> FALSE]
               ELSE IF fault = "size_write"
               THEN [index_files |-> written, size_files |-> Put(size_files, sp, Partial),
                     raised |-> "IOError", wrote |-> FALSE]
               ELSE IF name \notin DOMAIN fm.index_sizes
               THEN \* self.index_sizes[name] raises inside the with block
                    [index_files |-> written, size_files |-> Put(size_files, sp, Partial),
                     raised |-> "KeyError", wrote |-> FALSE]
               ELSE [index_files |-> written,
                     size_files |-> Put(size_files, sp, SizeFile(fm.index_sizes[name])),
                     raised |-> "", wrote |-> TRUE]

\* Faulty variants of add_vectors, each of which a property below must reject:
\* numbering every batch from 0, leaving index_sizes as it was, and storing
\* rows without comparing their width with the index's.
add_vectors_from_zero(fm, name, vectors, normalize) ==
    IF name \notin DOMAIN fm.indexes
    THEN [fm |-> fm, ids |-> <<>>, raised |-> "ValueError"]
    ELSE IF normalize /\ Len(vectors) = 0
    THEN [fm |-> fm, ids |-> <<>>, raised |-> "AxisError"]
    ELSE LET rows == [i \in DOMAIN vectors |->
                         IF normalize THEN Normalized(vectors[i]) ELSE AsGiven(vectors[i])]
             index == fm.indexes[name]
             n_vectors == Len(vectors)
         IN IF \E i \in DOMAIN rows : Width(rows[i]) # index.d
            THEN [fm |-> fm, ids |-> <<>>, raised |-> "AssertionError"]
            ELSE [fm |-> [indexes |-> Put(fm.indexes, name,
                                          [d |-> index.d, xb |-> index.xb \o rows]),
                          index_sizes |-> Put(fm.index_sizes, name,
                                              Get(fm.index_sizes, name, 0) + n_vectors)],
                  ids |-> [i \in 1..n_vectors |-> i - 1],
                  raised |-> ""]

add_vectors_stale_size(fm, name, vectors, normalize) ==
    IF name \notin DOMAIN fm.indexes
    THEN [fm |-> fm, ids |-> <<>>, raised |-> "ValueError"]
    ELSE IF normalize /\ Len(vectors) = 0
    THEN [fm |-> fm, ids |-> <<>>, raised |-> "AxisError"]
    ELSE LET rows == [i \in DOMAIN vectors |->
                         IF normalize THEN Normalized(vectors[i]) ELSE AsGiven(vectors[i])]
             start_id == Get(fm.index_sizes, name, 0)
             index == fm.indexes[name]
             n_vectors == Len(vectors)
         IN IF \E i \in DOMAIN rows : Width(rows[i]) # index.d
            THEN [fm |-> fm, ids |-> <<>>, raised |-> "AssertionError"]
            ELSE [fm |-> [indexes |-> Put(fm.indexes, name,
                                          [d |-> index.d, xb |-> index.xb \o rows]),
                          index_sizes |-> Put(fm.index_sizes, name, start_id)],
                  ids |-> [i \in 1..n_vectors |-> start_id + i - 1],
                  raised |-> ""]

add_vectors_unchecked_width(fm, name, vectors, normalize) ==
    IF name \notin DOMAIN fm.indexes
    THEN [fm |-> fm, ids |-> <<>>, raised |-> "ValueError"]
    ELSE IF normalize /\ Len(vectors) = 0
    THEN [fm |-> fm, ids |-> <<>>, raised |-> "AxisError"]
    ELSE LET rows == [i \in DOMAIN vectors |->
                         IF normalize THEN Normalized(vectors[i]) ELSE AsGiven(vectors[i])]
             start_id == Get(fm.index_sizes, name, 0)
             index == fm.indexes[name]
             n_vectors == Len(vectors)
         IN [fm |-> [indexes |-> Put(fm.indexes, name,
                                     [d |-> index.d, xb |-> index.xb \o rows]),
                     index_sizes |-> Put(fm.index_sizes, name, start_id + n_vectors)],
             ids |-> [i \in 1..n_vectors |-> start_id + i - 1],
             raised |-> ""]

\* add_vectors: vectors is the sequence of rows of a 2-D array (an empty
\* sequence is the 1-D empty array embed_batch returns for no valid text).
\* index.add asserts the rows' width against the index's dimension before it
\* stores anything.
add_vectors(fm, name, vectors, normalize) ==
    IF name \notin DOMAIN fm.indexes
    THEN [fm |-> fm, ids |-> <<>>, raised |-> "ValueError"]
    ELSE IF normalize /\ Len(vectors) = 0
    THEN [fm |-> fm, ids |-> <<>>, raised |-> "AxisError"]
    ELSE LET rows == [i \in DOMAIN vectors |->
                         IF normalize THEN Normalized(vectors[i]) ELSE AsGiven(vectors[i])]
             start_id == Get(fm.index_sizes, name, 0)
             index == fm.indexes[name]
             n_vectors == Len(vectors)
         IN IF \E i \in DOMAIN rows : Width(rows[i]) # index.d
            THEN [fm |-> fm, ids |-> <<>>, raised |-> "AssertionError"]
            ELSE [fm |-> [indexes |-> Put(fm.indexes, name,
                                          [d |-> index.d, xb |-> index.xb \o rows]),
                          index_sizes |-> Put(fm.index_sizes, name, start_id + n_vectors)],
                  ids |-> [i \in 1..n_vectors |-> start_id + i - 1],
                  raised |-> ""]

\* search: (distances, indices) as one sequence of [id, score]
search(fm, name, query_vector, k, normalize) ==
    IF name \notin DOMAIN fm.indexes
    THEN [hits |-> <<>>, raised |-> "ValueError"]
    ELSE LET q == IF normalize THEN Normalized(query_vector) ELSE AsGiven(query_vector)
             index == fm.indexes[name]
         IN IF Width(q) # index.d \/ k <= 0
            THEN [hits |-> <<>>, raised |-> "AssertionError"]
            ELSE [hits |-> IndexSearch(index, q, k), raised |-> ""]

get_index_size(fm, name) == Get(fm.index_sizes, name, 0)

index_exists(name, index_files) == _get_index_path(name) \in DOMAIN index_files

\* delete_index: forgets the name in memory (del self.index_sizes[name] raises
\* KeyError when a failed load left the index without a size), then removes
\* both files.
delete_index(fm, name, index_files, size_files) ==
    IF name \in DOMAIN fm.indexes /\ name \notin DOMAIN fm.index_sizes
    THEN [fm |-> [indexes |-> Del(fm.indexes, name), index_sizes |-> fm.index_sizes],
          index_files |-> index_files, size_files |-> size_files, raised |-> "KeyError"]
    ELSE [fm |-> [indexes |-> Del(fm.indexes, name), index_sizes |-> Del(fm.index_sizes, name)],
          index_files |-> Del(index_files, _get_index_path(name)),
          size_files |-> Del(size_files, _get_size_path(name)),
          raised |-> ""]

\* ------------------------------------------------------- MetadataStore
NewStore == EmptyDict

\* the JSON object written for a name: keys are str(id)
ToJson(records) ==
    [s \in { Str(k) : k \in DOMAIN records } |-> records[ParseInt(s)]]
\* {int(k): v for k, v in data.items()}
FromJson(data) ==
    [k \in { ParseInt(s) : s \in DOMAIN data } |-> data[Str(k)]]
MetadataFile(records) == [ok |-> TRUE, data |-> ToJson(records)]

\* load_metadata: a missing file and a file that cannot be read or parsed both
\* leave an empty dict for the name and answer False.
load_metadata(md, name, metadata_files) ==
    LET mp == _get_metadata_path(name)
    IN IF mp \notin DOMAIN metadata_files
       THEN [md |-> Put(md, name, EmptyDict), ret |-> FALSE]
       ELSE IF ~metadata_files[mp].ok
       THEN [md |-> Put(md, name, EmptyDict), ret |-> FALSE]
       ELSE [md |-> Put(md, name, FromJson(metadata_files[mp].data)), ret |-> TRUE]

\*   open   open(path, 'w') fails: the file is as it was
\*   write  open(path, 'w') has truncated the file, json.dump fails part way
SaveMetadataFaults == {"none", "open", "write"}

\* save_metadata: returns silently when the name is not in self.metadata;
\* otherwise rewrites the file in place and re-raises whatever fails.
save_metadata(md, name, metadata_files, fault) ==
    LET mp == _get_metadata_path(name)
    IN IF name \notin DOMAIN md
       THEN [metadata_files |-> metadata_files, raised |-> "", wrote |-> FALSE]
       ELSE IF fault = "open"
       THEN [metadata_files |-> metadata_files, raised |-> "IOError", wrote |-> FALSE]
       ELSE IF fault = "write"
       THEN [metadata_files |-> Put(metadata_files, mp, Partial),
             raised |-> "IOError", wrote |-> FALSE]
       ELSE [metadata_files |-> Put(metadata_files, mp, MetadataFile(md[name])),
             raised |-> "", wrote |-> TRUE]

\* the record built for one question (indexed_at, a clock reading, and the
\* url, title, timestamp and date copied from the source are left out)
MetadataRecord(name, question, source) ==
    [celebrity_name |-> name, question_text |-> question,
     source_type |-> source.source_type]

\* Faulty variant of add_metadata (no comparison of the lengths: zip stops at
\* the shortest sequence)
add_metadata_unchecked_lengths(md, name, faiss_ids, questions, sources) ==
    LET md0 == IF name \in DOMAIN md THEN md ELSE Put(md, name, EmptyDict)
        n == Min(Len(faiss_ids), Min(Len(questions), Len(sources)))
        Last(id) == CHOOSE i \in 1..n :
                        /\ faiss_ids[i] = id
                        /\ \A j \in 1..n : faiss_ids[j] = id => j <= i
        new == [id \in { faiss_ids[i] : i \in 1..n } |->
                   [celebrity_name |-> name, question_text |-> questions[Last(id)],
                    source_type |-> sources[Last(id)].source_type]]
    IN [md |-> Put(md0, name,
                   [id \in (DOMAIN md0[name]) \cup DOMAIN new |->
                       IF id \in DOMAIN new THEN new[id] ELSE md0[name][id]]),
        raised |-> ""]

\* add_metadata: the entry for the name is created before the lengths are
\* compared; zip pairs the three sequences position by position, a later
\* occurrence of an id overwriting an earlier one.
add_metadata(md, name, faiss_ids, questions, sources) ==
    LET md0 == IF name \in DOMAIN md THEN md ELSE Put(md, name, EmptyDict)
    IN IF Len(faiss_ids) # Len(questions) \/ Len(faiss_ids) # Len(sources)
       THEN [md |-> md0, raised |-> "ValueError"]
       ELSE LET Last(id) == CHOOSE i \in DOMAIN faiss_ids :
                                /\ faiss_ids[i] = id
                                /\ \A j \in DOMAIN faiss_ids : faiss_ids[j] = id => j <= i
                new == [id \in Range(faiss_ids) |->
                           MetadataRecord(name, questions[Last(id)], sources[Last(id)])]
            IN [md |-> Put(md0, name,
                           [id \in (DOMAIN md0[name]) \cup DOMAIN new |->
                               IF id \in DOMAIN new THEN new[id] ELSE md0[name][id]]),
                raised |-> ""]

\* get_metadata: None (here NoRecord) when the name or the id is unknown
NoRecord == [absent |-> TRUE]
get_metadata(md, name, faiss_id) ==
    IF name \notin DOMAIN md THEN NoRecord ELSE Get(md[name], faiss_id, NoRecord)

\* delete_metadata
delete_metadata(md, name, metadata_files) ==
    [md |-> Del(md, name),
     metadata_files |-> Del(metadata_files, _get_metadata_path(name))]

get_question_count(md, name) ==
    IF name \notin DOMAIN md THEN 0 ELSE Cardinality(DOMAIN md[name])

\* ------------------------------------------------------------ embedder
\* The sentence-transformer is a fixed function from text to vector; the model
\* gives it three texts. " " and "" are the blank texts (not text.strip()).
Texts == {"q10", "q11", "q01"}
BlankTexts == {"", " "}
Encode(text) == CASE text = "q10" -> <<1, 0>>
                  [] text = "q11" -> <<1, 1>>
                  [] OTHER -> <<0, 1>>
IsBlank(text) == text \in BlankTexts

\* embed_single: ValueError on a blank text
embed_single(text) ==
    IF IsBlank(text) THEN [vec |-> <<>>, raised |-> "ValueError"]
    ELSE [vec |-> Encode(text), raised |-> ""]

\* [t for t in texts if t and t.strip()]
RECURSIVE FilterBlank(_)
FilterBlank(texts) ==
    IF texts = <<>> THEN <<>>
    ELSE IF IsBlank(Head(texts)) THEN FilterBlank(Tail(texts))
    ELSE <<Head(texts)>> \o FilterBlank(Tail(texts))

\* embed_batch: ValueError on an empty list; blank texts are filtered out and
\* the rows returned are the embeddings of the texts that remain
embed_batch(texts) ==
    IF texts = <<>> THEN [vecs |-> <<>>, raised |-> "ValueError"]
    ELSE LET valid_texts == FilterBlank(texts)
         IN [vecs |-> [i \in DOMAIN valid_texts |-> Encode(valid_texts[i])],
             raised |-> ""]

\* ------------------------------------------------------ SemanticChunker
\* the elements of a set of integers in ascending order
Ascending(S) ==
    [k \in 1..Cardinality(S) |->
        CHOOSE x \in S : Cardinality({ y \in S : y < x }) = k - 1]

\* similarity_matrix = np.dot(embeddings, embeddings.T): the encoder's rows
\* have unit length (all-MiniLM-L6-v2 ends in a normalisation layer)
SimilarityMatrix(embeddings) ==
    [i \in DOMAIN embeddings |->
        [j \in DOMAIN embeddings |->
            InnerProduct(Normalized(embeddings[i]), Normalized(embeddings[j]))]]

\* the loop `for i in range(len(questions))`: greedy groups in input order,
\* each the first unclaimed question and every later unclaimed question whose
\* similarity to it reaches the threshold
RECURSIVE GreedyGroups(_, _, _, _, _, _)
GreedyGroups(i, n, similarity_matrix, threshold, used, groups) ==
    IF i > n THEN groups
    ELSE IF i \in used
    THEN GreedyGroups(i + 1, n, similarity_matrix, threshold, used, groups)
    ELSE LET similar == { j \in (i + 1)..n :
                            /\ j \notin used
                            /\ ScoreGE(similarity_matrix[i][j], ThresholdScore(threshold)) }
         IN GreedyGroups(i + 1, n, similarity_matrix, threshold,
                         used \cup similar \cup {i},
                         Append(groups, <<i>> \o Ascending(similar)))

\* source_info of one question (source_title, timestamp and date are left out)
SourceInfo(question) == [source_url |-> question.source_url]

\* Faulty variant of Representative (all_sources and duplicate_count are set
\* for a group of one as well)
Representative_always_annotated(questions, group, keep_all_sources) ==
    LET representative == questions[group[1]]
    IN IF keep_all_sources
       THEN [f \in (DOMAIN representative) \cup {"all_sources", "duplicate_count"} |->
                IF f = "all_sources"
                THEN [k \in DOMAIN group |-> SourceInfo(questions[group[k]])]
                ELSE IF f = "duplicate_count" THEN Len(group)
                ELSE representative[f]]
       ELSE representative

\* Faulty variant of Representative (the copy is of the group's last member)
Representative_last_member(questions, group, keep_all_sources) ==
    LET representative == questions[group[Len(group)]]
    IN IF keep_all_sources /\ Len(group) > 1
       THEN [f \in (DOMAIN representative) \cup {"all_sources", "duplicate_count"} |->
                IF f = "all_sources"
                THEN [k \in DOMAIN group |-> SourceInfo(questions[group[k]])]
                ELSE IF f = "duplicate_count" THEN Len(group)
                ELSE representative[f]]
       ELSE representative

\* the record emitted for a group: a copy of its first question, with
\* all_sources and duplicate_count when the group has more than one member
Representative(questions, group, keep_all_sources) ==
    LET representative == questions[group[1]]
    IN IF keep_all_sources /\ Len(group) > 1
       THEN [f \in (DOMAIN representative) \cup {"all_sources", "duplicate_count"} |->
                IF f = "all_sources"
                THEN [k \in DOMAIN group |-> SourceInfo(questions[group[k]])]
                ELSE IF f = "duplicate_count" THEN Len(group)
                ELSE representative[f]]
       ELSE representative

\* deduplicate_questions; threshold is self.similarity_threshold. embed_batch
\* returns fewer rows than there are questions when a text is blank, and the
\* first read of similarity_matrix[i, j] beyond its rows raises IndexError.
deduplicate_questions(questions, threshold, keep_all_sources) ==
    IF Len(questions) = 0 THEN [out |-> <<>>, raised |-> ""]
    ELSE IF Len(questions) = 1 THEN [out |-> questions, raised |-> ""]
    ELSE LET texts == [i \in DOMAIN questions |-> questions[i].text]
             embeddings == embed_batch(texts)
         IN IF embeddings.raised # "" THEN [out |-> <<>>, raised |-> embeddings.raised]
            ELSE IF Len(embeddings.vecs) < Len(questions)
            THEN [out |-> <<>>, raised |-> "IndexError"]
            ELSE LET groups == GreedyGroups(1, Len(questions),
                                            SimilarityMatrix(embeddings.vecs),
                                            threshold, {}, <<>>)
                 IN [out |-> [g \in DOMAIN groups |->
                                 Representative(questions, groups[g], keep_all_sources)],
                     raised |-> ""]

\* int(np.sqrt(n))
IntSqrt(n) == CHOOSE r \in 0..n : r * r <= n /\ n < (r + 1) * (r + 1)
Max(a, b) == IF a >= b THEN a ELSE b

\* AgglomerativeClustering(n_clusters=k, ...).fit_predict(X) of scikit-learn,
\* whose code is not in the repository: ValueError for fewer than two rows or
\* for more clusters than rows; otherwise one label per row, every label of
\* 0..k-1 used. Which row gets which label is left open.
FitPredict(k, rows) ==
    IF rows < 2 \/ k < 1 \/ k > rows THEN { [labels |-> <<>>, raised |-> "ValueError"] }
    ELSE { [labels |-> l, raised |-> ""] :
              l \in { f \in [1..rows -> 0..(k - 1)] : Range(f) = 0..(k - 1) } }

\* the questions of the rows that carry a label, in input order
RECURSIVE Labelled(_, _, _, _)
Labelled(questions, labels, label, i) ==
    IF i > Len(labels) THEN <<>>
    ELSE IF labels[i] = label
    THEN <<questions[i]>> \o Labelled(questions, labels, label, i + 1)
    ELSE Labelled(questions, labels, label, i + 1)

\* cluster_questions: the set of its possible outcomes. n_clusters is <<>>
\* for None and <<k>> for the integer k. enumerate(labels) pairs the labels
\* with the first questions when embed_batch dropped blank texts.
cluster_questions(questions, n_clusters) ==
    IF Len(questions) < 2
    THEN { [clusters |-> (0 :> questions), labels |-> [i \in DOMAIN questions |-> 0],
            requested |-> 0, raised |-> ""] }
    ELSE LET texts == [i \in DOMAIN questions |-> questions[i].text]
             embeddings == embed_batch(texts)
             n == IF n_clusters = <<>> THEN Max(2, IntSqrt(Len(questions)))
                  ELSE n_clusters[1]
             requested == Min(n, Len(questions))
         IN IF embeddings.raised # ""
            THEN { [clusters |-> EmptyDict, labels |-> <<>>, requested |-> requested,
                    raised |-> embeddings.raised] }
            ELSE { [clusters |-> [label \in Range(p.labels) |->
                                     Labelled(questions, p.labels, label, 1)],
                    labels |-> p.labels, requested |-> requested, raised |-> p.raised] :
                      p \in FitPredict(requested, Len(embeddings.vecs)) }

\* max(similarities): the largest of a non-empty set of scores
MaxScore(S) == CHOOSE s \in S : \A t \in S : ScoreGE(s, t)

\* Faulty variant of max_similarity (the similarity to the item selected last)
max_similarity_to_last(embeddings, i, selected) ==
    InnerProduct(Normalized(embeddings[i]), Normalized(embeddings[selected[Len(selected)]]))

\* max_similarity = max(np.dot(embeddings[i], emb) for emb in selected_embeddings)
max_similarity(embeddings, i, selected) ==
    MaxScore({ InnerProduct(Normalized(embeddings[i]), Normalized(embeddings[selected[k]])) :
                  k \in DOMAIN selected })

\* (1 - max_similarity) >= min_distance, for the rational min_distance
\* num/den: max_similarity <= (den - num)/den
FarEnough(similarity, min_distance) ==
    ScoreGE(ThresholdScore(Threshold(min_distance.den - min_distance.num, min_distance.den)),
            similarity)

\* the loop `for i in range(1, len(questions))` of filter_by_semantic_distance
RECURSIVE SelectDiverse(_, _, _, _, _)
SelectDiverse(i, n, embeddings, min_distance, selected) ==
    IF i > n THEN selected
    ELSE IF FarEnough(max_similarity(embeddings, i, selected), min_distance)
    THEN SelectDiverse(i + 1, n, embeddings, min_distance, Append(selected, i))
    ELSE SelectDiverse(i + 1, n, embeddings, min_distance, selected)

\* filter_by_semantic_distance. embed_batch returns fewer rows than there are
\* questions when a text is blank, and embeddings[i] beyond its rows raises
\* IndexError before the loop ends.
filter_by_semantic_distance(questions, min_distance) ==
    IF Len(questions) <= 1
    THEN [filtered |-> questions, selected |-> [i \in DOMAIN questions |-> i], raised |-> ""]
    ELSE LET texts == [i \in DOMAIN questions |-> questions[i].text]
             embeddings == embed_batch(texts)
         IN IF embeddings.raised # ""
            THEN [filtered |-> <<>>, selected |-> <<>>, raised |-> embeddings.raised]
            ELSE IF Len(embeddings.vecs) < Len(questions)
            THEN [filtered |-> <<>>, selected |-> <<>>, raised |-> "IndexError"]
            ELSE LET selected == SelectDiverse(2, Len(questions), embeddings.vecs,
                                               min_distance, <<1>>)
                 IN [filtered |-> [k \in DOMAIN selected |-> questions[selected[k]]],
                     selected |-> selected, raised |-> ""]

\* ---------------------------------------------------- QuestionRetriever
\* similarity_threshold: float = 0.50
DefaultThreshold == Threshold(1, 2)

\* __init__: its own FAISSIndexManager and MetadataStore
NewRetriever ==
    [similarity_threshold |-> DefaultThreshold,
     faiss_manager |-> NewManager,
     metadata_store |-> NewStore]

\* Faulty variant of AboveThreshold (the comparison the other way round)
AboveThreshold_reversed(similarity, threshold) ==
    ScoreGE(ThresholdScore(threshold), similarity)

\* similarity >= self.similarity_threshold
AboveThreshold(similarity, threshold) == ScoreGE(similarity, ThresholdScore(threshold))

\* Faulty variant of Truthy (no `if metadata:` before the record is used)
Truthy_always(metadata) == TRUE

\* `if metadata:` is false for None and for an empty dict
Truthy(metadata) == metadata # NoRecord /\ DOMAIN metadata # {}

\* metadata['similarity_score'] = float(similarity), on the dict the store holds
WithScore(metadata, similarity) ==
    [f \in (DOMAIN metadata) \cup {"similarity_score"} |->
        IF f = "similarity_score" THEN similarity ELSE metadata[f]]

\* Faulty variant of SortByScore (the sort without reverse=True)
SortByScore_ascending(matches) ==
    LET Before(i, j) ==
            \/ ScoreGT(matches[j].similarity_score, matches[i].similarity_score)
            \/ (~ScoreGT(matches[i].similarity_score, matches[j].similarity_score) /\ i < j)
        Pos(i) == 1 + Cardinality({ j \in DOMAIN matches : j # i /\ Before(j, i) })
    IN [p \in DOMAIN matches |-> matches[CHOOSE i \in DOMAIN matches : Pos(i) = p]]

\* matches.sort(key=similarity_score, reverse=True): stable, equal scores keep
\* their order
SortByScore(matches) ==
    LET Before(i, j) ==
            \/ ScoreGT(matches[i].similarity_score, matches[j].similarity_score)
            \/ (~ScoreGT(matches[j].similarity_score, matches[i].similarity_score) /\ i < j)
        Pos(i) == 1 + Cardinality({ j \in DOMAIN matches : j # i /\ Before(j, i) })
    IN [p \in DOMAIN matches |-> matches[CHOOSE i \in DOMAIN matches : Pos(i) = p]]

\* Step 4 of retrieve: the loop over zip(distances, indices). Returns the store
\* as the loop leaves it and the matches in the order they were appended.
RECURSIVE FilterHits(_, _, _, _, _)
FilterHits(md, name, hits, threshold, matches) ==
    IF hits = <<>> THEN [md |-> md, matches |-> matches]
    ELSE LET h == Head(hits)
             metadata == get_metadata(md, name, h.id)
         IN IF AboveThreshold(h.score, threshold) /\ Truthy(metadata)
            THEN LET scored == WithScore(metadata, h.score)
                 IN FilterHits(Put(md, name, Put(md[name], h.id, scored)), name,
                               Tail(hits), threshold, Append(matches, scored))
            ELSE FilterHits(md, name, Tail(hits), threshold, matches)

\* Faulty variant of retrieve (no `if index_size == 0` before the search)
retrieve_without_empty_check(r, name, user_question, top_k, index_files, size_files, metadata_files) ==
    LET li == load_index(r.faiss_manager, name, index_files, size_files)
        r1 == [r EXCEPT !.faiss_manager = li.fm]
    IN IF ~li.ret THEN [r |-> r1, matches |-> <<>>, raised |-> ""]
       ELSE
       LET lm == load_metadata(r1.metadata_store, name, metadata_files)
           r2 == [r1 EXCEPT !.metadata_store = lm.md]
       IN IF ~lm.ret THEN [r |-> r2, matches |-> <<>>, raised |-> ""]
          ELSE
          LET index_size == get_index_size(r2.faiss_manager, name)
              query_embedding == embed_single(user_question)
          IN IF query_embedding.raised # ""
             THEN [r |-> r2, matches |-> <<>>, raised |-> query_embedding.raised]
             ELSE
             LET k == Min(top_k, index_size)
                 found == search(r2.faiss_manager, name, query_embedding.vec, k, TRUE)
             IN IF found.raised # ""
                THEN [r |-> r2, matches |-> <<>>, raised |-> found.raised]
                ELSE
                LET kept == FilterHits(r2.metadata_store, name, found.hits,
                                       r2.similarity_threshold, <<>>)
                IN [r |-> [r2 EXCEPT !.metadata_store = kept.md],
                    matches |-> SortByScore(kept.matches),
                    raised |-> ""]

\* retrieve: r is the retriever; returns the retriever afterwards, the matches
\* and the exception raised, if any
retrieve(r, name, user_question, top_k, index_files, size_files, metadata_files) ==
    LET li == load_index(r.faiss_manager, name, index_files, size_files)
        r1 == [r EXCEPT !.faiss_manager = li.fm]
    IN IF ~li.ret THEN [r |-> r1, matches |-> <<>>, raised |-> ""]
       ELSE
       LET lm == load_metadata(r1.metadata_store, name, metadata_files)
           r2 == [r1 EXCEPT !.metadata_store = lm.md]
       IN IF ~lm.ret THEN [r |-> r2, matches |-> <<>>, raised |-> ""]
          ELSE
          LET index_size == get_index_size(r2.faiss_manager, name)
          IN IF index_size = 0 THEN [r |-> r2, matches |-> <<>>, raised |-> ""]
             ELSE
             LET query_embedding == embed_single(user_question)
             IN IF query_embedding.raised # ""
                THEN [r |-> r2, matches |-> <<>>, raised |-> query_embedding.raised]
                ELSE
                LET k == Min(top_k, index_size)
                    found == search(r2.faiss_manager, name, query_embedding.vec, k, TRUE)
                IN IF found.raised # ""
                   THEN [r |-> r2, matches |-> <<>>, raised |-> found.raised]
                   ELSE
                   LET kept == FilterHits(r2.metadata_store, name, found.hits,
                                          r2.similarity_threshold, <<>>)
                   IN [r |-> [r2 EXCEPT !.metadata_store = kept.md],
                       matches |-> SortByScore(kept.matches),
                       raised |-> ""]

\* 0.0, the max_similarity of an empty result
ZeroScore == Score(0, 1)

\* retrieve_with_context: the dict it returns (field context) has exactly the
\* keys matches, count, threshold_used, max_similarity, query, celebrity
retrieve_with_context(r, name, user_question, index_files, size_files, metadata_files) ==
    LET got == retrieve(r, name, user_question, 20, index_files, size_files, metadata_files)
    IN [r |-> got.r,
        raised |-> got.raised,
        context |->
          [matches |-> got.matches,
           count |-> Len(got.matches),
           threshold_used |-> r.similarity_threshold,
           max_similarity |-> IF got.matches # <<>> THEN got.matches[1].similarity_score
                              ELSE ZeroScore,
           query |-> user_question,
           celebrity |-> name]]

\* explain_no_results: loads the index only (not the metadata) and asks for the
\* single nearest row
explain_no_results(r, name, user_question, index_files, size_files) ==
    LET li == load_index(r.faiss_manager, name, index_files, size_files)
        r1 == [r EXCEPT !.faiss_manager = li.fm]
    IN IF ~li.ret THEN [r |-> r1, raised |-> "", info |-> [reason |-> "no_index"]]
       ELSE IF get_index_size(r1.faiss_manager, name) = 0
       THEN [r |-> r1, raised |-> "", info |-> [reason |-> "empty_index"]]
       ELSE
       LET query_embedding == embed_single(user_question)
       IN IF query_embedding.raised # ""
          THEN [r |-> r1, raised |-> query_embedding.raised, info |-> [reason |-> ""]]
          ELSE
          LET found == search(r1.faiss_manager, name, query_embedding.vec, 1, TRUE)
          IN IF found.raised # ""
             THEN [r |-> r1, raised |-> found.raised, info |-> [reason |-> ""]]
             ELSE [r |-> r1, raised |-> "",
                   info |-> [reason |-> "below_threshold",
                             closest_match |-> get_metadata(r1.metadata_store, name,
                                                            found.hits[1].id),
                             closest_similarity |-> found.hits[1].score,
                             threshold |-> r1.similarity_threshold]]

\* Faulty variant of adjust_threshold (no validation of the value)
adjust_threshold_unvalidated(r, new_threshold) ==
    [r |-> [r EXCEPT !.similarity_threshold = new_threshold], raised |-> ""]

\* adjust_threshold: ValueError unless 0 <= new_threshold <= 1
adjust_threshold(r, new_threshold) ==
    IF ~(0 <= new_threshold.num /\ new_threshold.num <= new_threshold.den)
    THEN [r |-> r, raised |-> "ValueError"]
    ELSE [r |-> [r EXCEPT !.similarity_threshold = new_threshold], raised |-> ""]

\* ------------------------------------------ CelebrityQuestionGraph
\* What can interrupt one run of _index_questions: the process stopping after
\* add_metadata and before save_index, and the write failures of the two saves.
CycleFaults == {"none", "stop_before_save", "index_write", "size_open", "size_write",
                "metadata_open", "metadata_write"}
IndexFault(fault) ==
    IF fault \in {"index_write", "size_open", "size_write"} THEN fault ELSE "none"
MetadataFault(fault) ==
    CASE fault = "metadata_open" -> "open" [] fault = "metadata_write" -> "write"
      [] OTHER -> "none"

\* _index_questions: load or create the index, load the metadata, embed, add
\* the vectors, add the metadata, save the index, save the metadata. The first
\* exception ends it; what was done before stays done.
_index_questions(fm, md, name, questions, index_files, size_files, metadata_files, fault) ==
    LET li == load_index(fm, name, index_files, size_files)
        fm1 == IF li.ret THEN li.fm ELSE create_index(li.fm, name, EmbeddingDim)
        md1 == load_metadata(md, name, metadata_files).md
        question_texts == [i \in DOMAIN questions |-> questions[i].text]
        embeddings == embed_batch(question_texts)
        files == [index_files |-> index_files, size_files |-> size_files,
                  metadata_files |-> metadata_files]
    IN IF embeddings.raised # ""
       THEN [fm |-> fm1, md |-> md1, raised |-> embeddings.raised] @@ files
       ELSE
       LET added == add_vectors(fm1, name, embeddings.vecs, TRUE)
       IN IF added.raised # ""
          THEN [fm |-> added.fm, md |-> md1, raised |-> added.raised] @@ files
          ELSE
          LET metadata_list == [i \in DOMAIN questions |->
                                   [source_type |-> questions[i].source_type]]
              stored == add_metadata(md1, name, added.ids, question_texts, metadata_list)
          IN IF stored.raised # ""
             THEN [fm |-> added.fm, md |-> stored.md, raised |-> stored.raised] @@ files
             ELSE IF fault = "stop_before_save"
             THEN [fm |-> added.fm, md |-> stored.md, raised |-> "Stopped"] @@ files
             ELSE
             LET si == save_index(added.fm, name, index_files, size_files, IndexFault(fault))
             IN IF si.raised # ""
                THEN [fm |-> added.fm, md |-> stored.md, raised |-> si.raised,
                      index_files |-> si.index_files, size_files |-> si.size_files,
                      metadata_files |-> metadata_files]
                ELSE
                LET sm == save_metadata(stored.md, name, metadata_files, MetadataFault(fault))
                IN [fm |-> added.fm, md |-> stored.md, raised |-> sm.raised,
                    index_files |-> si.index_files, size_files |-> si.size_files,
                    metadata_files |-> sm.metadata_files]

\* ------------------------------------------------------- DecisionAgent
\* MIN_SOURCES_THRESHOLD (default "10"), scaled to the model's batches
MinSources == 1

\* load_registry: the default registry when the file is missing or unreadable
load_registry(reg) == IF reg.exists /\ reg.ok THEN reg.celebrities ELSE EmptyDict

\* save_registry: rewrites the file in place and re-raises whatever fails
\*   open   open(path, 'w') fails: the file is as it was
\*   write  open(path, 'w') has truncated the file, json.dump fails part way
RegistryFaults == {"none", "open", "write"}
save_registry(reg, celebrities, fault) ==
    IF fault = "open" THEN [registry |-> reg, raised |-> "IOError"]
    ELSE IF fault = "write"
    THEN [registry |-> [exists |-> TRUE, ok |-> FALSE, celebrities |-> EmptyDict],
          raised |-> "IOError"]
    ELSE [registry |-> [exists |-> TRUE, ok |-> TRUE, celebrities |-> celebrities],
          raised |-> ""]

\* update_registry_after_ingest (the dates and the list of urls are left out)
update_registry_after_ingest(reg, name, questions_count, source_types, fault) ==
    save_registry(reg,
                  Put(load_registry(reg), name,
                      [questions_count |-> questions_count, source_types |-> source_types]),
                  fault)

\* What client.generate and json.loads leave in result['decision']: one of the
\* three decisions, JSON null, or nothing because one of them raised.
LLMAnswers ==
    { [decision |-> d, raised |-> ""] :
         d \in {"INGEST", "RETRIEVE", "INCREMENTAL_INGEST", None} }
    \cup { [decision |-> None, raised |-> "Exception"] }

\* make_decision: the decision it returns. is_fresh is
\* days_since_update < freshness_days, a reading of the clock.
make_decision(reg, name, force_ingest, llm, is_fresh) ==
    LET celebrities == load_registry(reg)
        indexed == name \in DOMAIN celebrities
    IN IF force_ingest THEN "INGEST"
       ELSE IF llm.raised # "" THEN (IF indexed THEN "RETRIEVE" ELSE "INGEST")
       ELSE IF /\ indexed
               /\ celebrities[name].questions_count >= MinSources
               /\ is_fresh
               /\ llm.decision \in {"INCREMENTAL_INGEST", "INGEST"}
       THEN "RETRIEVE"
       ELSE llm.decision

\* ----------------------------------- CelebrityQuestionGraph: the nodes
\* str.upper() on the decisions the model uses
Upper(s) == CASE s = "retrieve" -> "RETRIEVE" [] s = "ingest" -> "INGEST" [] OTHER -> s

Visit(state, node) == [state EXCEPT !.visited = Append(@, node)]
Called(state, call, raised) ==
    [state EXCEPT !.calls = Append(@, [call |-> call, raised |-> raised])]
\* the locals of ingest_node and _index_questions are gone when it returns
Returning(state) ==
    [state EXCEPT !.all_questions = <<>>, !.embeddings = <<>>, !.faiss_ids = <<>>]

\* decision_node: agent_raised is the exception make_decision let out, if any
decision_node(state, decision, agent_raised) ==
    IF agent_raised # ""
    THEN [state EXCEPT !.error = agent_raised, !.decision = "retrieve", !.node = "route"]
    ELSE [state EXCEPT !.decision = IF decision = "INCREMENTAL_INGEST" THEN "INGEST"
                                    ELSE decision,
                       !.node = "route"]

\* route_after_decision: state.get('decision', 'retrieve').upper(); the key is
\* always there, so a None decision raises AttributeError out of graph.invoke
route_after_decision(state) ==
    IF state.decision = None THEN [state EXCEPT !.node = "raised"]
    ELSE IF Upper(state.decision) = "INGEST" THEN [state EXCEPT !.node = "ingest"]
    ELSE [state EXCEPT !.node = "retrieve"]

\* Faulty variant of ingest_except (the handler reports success)
ingest_except_reporting_success(state, e) ==
    Returning([state EXCEPT !.error = e, !.ingestion_success = TRUE, !.node = "retrieve"])

\* the `except Exception as e` of ingest_node
ingest_except(state, e) ==
    Returning([state EXCEPT !.error = e, !.ingestion_success = FALSE, !.node = "retrieve"])

\* one call of ingest_node or _index_questions has returned: on to the next
\* call, or to the handler when it raised
AfterCall(state, call, raised, next) ==
    IF raised # "" THEN ingest_except(Called(state, call, raised), raised)
    ELSE [Called(state, call, raised) EXCEPT !.node = next]

\* =================================================================== state
VARIABLES
    faiss_manager,      \* graph.faiss_manager: [indexes, index_sizes]
    metadata_store,     \* graph.metadata_store.metadata
    retriever,          \* graph.retriever, with its own manager and store
    index_files,        \* data/faiss_indexes/<safe>.faiss
    size_files,         \* data/faiss_indexes/<safe>_size.pkl
    metadata_files,     \* data/metadata/<safe>_metadata.json
    ret,                \* the last call: [op, name, arg, raised, val]
    issued,             \* history: name -> ids that calls of add_vectors
                        \*   returned since the name was last deleted
    issued_since,       \* history: name -> ids that calls of add_vectors
                        \*   returned since the name was last created or loaded
    cycles_only,        \* history: every call so far was an ingestion cycle
                        \*   that raised nothing, or a query
    requests,           \* the runs of the graph: thread -> GraphState, the node it
                        \*   is at and the locals of the call it is in
    registry            \* registry/celebrity_index.json

vars == <<faiss_manager, metadata_store, retriever, index_files, size_files,
          metadata_files, ret, issued, issued_since, cycles_only, requests, registry>>
memory == <<faiss_manager, metadata_store, retriever>>
disk == <<index_files, size_files, metadata_files>>
history == <<issued, issued_since, cycles_only>>
workflow == <<requests, registry>>

\* the threads of the executor that run CelebrityQuestionGraph.run
Requests == {"t1", "t2"}
\* a thread that runs nothing. The fields of GraphState (celebrity_name ...
\* error), the node the run is at, the locals of ingest_node and
\* _index_questions, and two records for the properties: the nodes visited and
\* the calls ingest_node completed, in order.
NoRun ==
    [node |-> "idle",
     celebrity_name |-> <<>>, user_question |-> "", force_ingest |-> FALSE,
     decision |-> None, ingestion_success |-> FALSE, retrieval_count |-> 0,
     final_answer |-> None, error |-> None,
     all_questions |-> <<>>, embeddings |-> <<>>, faiss_ids |-> <<>>,
     visited |-> <<>>, calls |-> <<>>]
\* no registry file
NoRegistry == [exists |-> FALSE, ok |-> TRUE, celebrities |-> EmptyDict]

Returned(op, name, arg, raised, val) ==
    [op |-> op, name |-> name, arg |-> arg, raised |-> raised, val |-> val]
NoIds == [n \in Names |-> {}]

Init ==
    /\ faiss_manager = NewManager
    /\ metadata_store = NewStore
    /\ retriever = NewRetriever
    /\ index_files = EmptyDict
    /\ size_files = EmptyDict
    /\ metadata_files = EmptyDict
    /\ ret = Returned("init", <<>>, 0, "", 0)
    /\ issued = NoIds
    /\ issued_since = NoIds
    /\ cycles_only = TRUE
    /\ requests = [q \in Requests |-> NoRun]
    /\ registry = NoRegistry

\* ------------------------------------------------------------------ inputs
MaxBatch == MaxVecs
Dims == {EmbeddingDim}
BatchesOver(S) == UNION { [1..n -> S] : n \in 1..MaxBatch }
\* rows a caller hands to add_vectors, rows of another width among them
VectorBatches == BatchesOver({ <<1, 0>> }) \cup BatchesOver({ <<1>> })
\* what the ingesters hand to _index_questions, a blank text among it
Question(text, source_type) == [text |-> text, source_type |-> source_type]
IngestBatches ==
    { [i \in 1..n |-> Question("q10", "youtube")] : n \in 1..MaxBatch }
    \cup { << Question("q10", "youtube"), Question(" ", "podcast") >> }
\* what a caller hands to add_metadata
IdBatches == { <<0>> }
MetadataBatches == { <<Question("q10", "youtube")>>,
                     <<Question("q10", "youtube"), Question("q10", "youtube")>> }
\* the room the model leaves in an index
Room(fm, name, n) ==
    /\ Get(fm.index_sizes, name, 0) + n <= MaxVecs
    /\ (name \in DOMAIN fm.indexes => ntotal(fm.indexes[name]) + n <= MaxVecs)

\* ----------------------------------------------- calls on the graph's stores
CreateIndex(name, dim) ==
    /\ faiss_manager' = create_index(faiss_manager, name, dim)
    /\ ret' = Returned("create_index", name, dim, "", 0)
    /\ issued_since' = [issued_since EXCEPT ![name] = {}]
    /\ cycles_only' = FALSE
    /\ UNCHANGED <<metadata_store, retriever, disk, issued, workflow>>

LoadIndex(name) ==
    \E r \in { load_index(faiss_manager, name, index_files, size_files) } :
       /\ faiss_manager' = r.fm
       /\ ret' = Returned("load_index", name, 0, "", r.ret)
       /\ issued_since' = IF r.fm # faiss_manager
                          THEN [issued_since EXCEPT ![name] = {}] ELSE issued_since
       /\ cycles_only' = FALSE
       /\ UNCHANGED <<metadata_store, retriever, disk, issued, workflow>>

SaveIndex(name, fault) ==
    \E r \in { save_index(faiss_manager, name, index_files, size_files, fault) } :
       /\ index_files' = r.index_files
       /\ size_files' = r.size_files
       /\ ret' = Returned("save_index", name, fault, r.raised, r.wrote)
       /\ cycles_only' = FALSE
       /\ UNCHANGED <<memory, metadata_files, issued, issued_since, workflow>>

\* Faulty variant of AddVectors (the call also writes the .faiss file)
AddVectorsWritingFile(name, vectors, normalize) ==
    \E r \in { add_vectors(faiss_manager, name, vectors, normalize) } :
       /\ Room(faiss_manager, name, Len(vectors))
       /\ faiss_manager' = r.fm
       /\ index_files' = IF r.raised = ""
                         THEN Put(index_files, _get_index_path(name),
                                  IndexFile(r.fm.indexes[name]))
                         ELSE index_files
       /\ ret' = Returned("add_vectors", name, vectors, r.raised, r.ids)
       /\ issued' = [issued EXCEPT ![name] = @ \cup Range(r.ids)]
       /\ issued_since' = [issued_since EXCEPT ![name] = @ \cup Range(r.ids)]
       /\ cycles_only' = FALSE
       /\ UNCHANGED <<metadata_store, retriever, size_files, metadata_files, workflow>>

AddVectors(name, vectors, normalize) ==
    \E r \in { add_vectors(faiss_manager, name, vectors, normalize) } :
       /\ Room(faiss_manager, name, Len(vectors))
       /\ faiss_manager' = r.fm
       /\ ret' = Returned("add_vectors", name, vectors, r.raised, r.ids)
       /\ issued' = [issued EXCEPT ![name] = @ \cup Range(r.ids)]
       /\ issued_since' = [issued_since EXCEPT ![name] = @ \cup Range(r.ids)]
       /\ cycles_only' = FALSE
       /\ UNCHANGED <<metadata_store, retriever, disk, workflow>>

Search(name, text, k) ==
    \E r \in { search(faiss_manager, name, Encode(text), k, TRUE) } :
       /\ ret' = Returned("search", name, k, r.raised, r.hits)
       /\ cycles_only' = FALSE
       /\ UNCHANGED <<memory, disk, issued, issued_since, workflow>>

GetIndexSize(name) ==
    /\ ret' = Returned("get_index_size", name, 0, "", get_index_size(faiss_manager, name))
    /\ cycles_only' = FALSE
    /\ UNCHANGED <<memory, disk, issued, issued_since, workflow>>

DeleteIndex(name) ==
    \E r \in { delete_index(faiss_manager, name, index_files, size_files) } :
       /\ faiss_manager' = r.fm
       /\ index_files' = r.index_files
       /\ size_files' = r.size_files
       /\ ret' = Returned("delete_index", name, 0, r.raised, 0)
       /\ issued' = [issued EXCEPT ![name] = {}]
       /\ issued_since' = [issued_since EXCEPT ![name] = {}]
       /\ cycles_only' = FALSE
       /\ UNCHANGED <<metadata_store, retriever, metadata_files, workflow>>

LoadMetadata(name) ==
    \E r \in { load_metadata(metadata_store, name, metadata_files) } :
       /\ metadata_store' = r.md
       /\ ret' = Returned("load_metadata", name, 0, "", r.ret)
       /\ cycles_only' = FALSE
       /\ UNCHANGED <<faiss_manager, retriever, disk, issued, issued_since, workflow>>

SaveMetadata(name, fault) ==
    \E r \in { save_metadata(metadata_store, name, metadata_files, fault) } :
       /\ metadata_files' = r.metadata_files
       /\ ret' = Returned("save_metadata", name, fault, r.raised, r.wrote)
       /\ cycles_only' = FALSE
       /\ UNCHANGED <<memory, index_files, size_files, issued, issued_since, workflow>>

AddMetadata(name, faiss_ids, questions) ==
    \E r \in { add_metadata(metadata_store, name, faiss_ids,
                            [i \in DOMAIN questions |-> questions[i].text],
                            [i \in DOMAIN questions |->
                                [source_type |-> questions[i].source_type]]) } :
       /\ metadata_store' = r.md
       /\ ret' = Returned("add_metadata", name, faiss_ids, r.raised, 0)
       /\ cycles_only' = FALSE
       /\ UNCHANGED <<faiss_manager, retriever, disk, issued, issued_since, workflow>>

\* add_metadata called with the three sequences given separately
AddMetadataRows(name, faiss_ids, questions, sources) ==
    \E r \in { add_metadata(metadata_store, name, faiss_ids, questions, sources) } :
       /\ metadata_store' = r.md
       /\ ret' = Returned("add_metadata", name,
                          [faiss_ids |-> faiss_ids, questions |-> questions,
                           sources |-> sources],
                          r.raised, 0)
       /\ cycles_only' = FALSE
       /\ UNCHANGED <<faiss_manager, retriever, disk, issued, issued_since, workflow>>

DeleteMetadata(name) ==
    \E r \in { delete_metadata(metadata_store, name, metadata_files) } :
       /\ metadata_store' = r.md
       /\ metadata_files' = r.metadata_files
       /\ ret' = Returned("delete_metadata", name, 0, "", 0)
       /\ cycles_only' = FALSE
       /\ UNCHANGED <<faiss_manager, retriever, index_files, size_files, issued, issued_since, workflow>>

\* One call of _index_questions by the workflow graph. When the process stops
\* inside the call, everything in memory is gone.
IndexQuestions(name, questions, fault) ==
    \E r \in { _index_questions(faiss_manager, metadata_store, name, questions,
                                index_files, size_files, metadata_files, fault) } :
       /\ Len(questions) <= MaxVecs
       /\ Get(r.fm.index_sizes, name, 0) <= MaxVecs
       /\ ntotal(r.fm.indexes[name]) <= MaxVecs
       /\ faiss_manager' = IF r.raised = "Stopped" THEN NewManager ELSE r.fm
       /\ metadata_store' = IF r.raised = "Stopped" THEN NewStore ELSE r.md
       /\ retriever' = IF r.raised = "Stopped" THEN NewRetriever ELSE retriever
       /\ index_files' = r.index_files
       /\ size_files' = r.size_files
       /\ metadata_files' = r.metadata_files
       /\ ret' = Returned("_index_questions", name, questions, r.raised, 0)
       /\ cycles_only' = (cycles_only /\ r.raised = "")
       /\ UNCHANGED <<issued, issued_since, workflow>>

\* the process stops and starts again: memory is lost, the files stay
Crash ==
    /\ faiss_manager' = NewManager
    /\ metadata_store' = NewStore
    /\ retriever' = NewRetriever
    /\ ret' = Returned("crash", <<>>, 0, "", 0)
    /\ issued' = NoIds
    /\ issued_since' = NoIds
    /\ requests' = [q \in Requests |-> NoRun]
    /\ UNCHANGED <<disk, cycles_only, registry>>

\* --------------------------------- calls on the chunker and the embedder
Deduplicate(questions, threshold, keep_all_sources) ==
    \E r \in { deduplicate_questions(questions, threshold, keep_all_sources) } :
       /\ ret' = Returned("deduplicate_questions", <<>>,
                          [questions |-> questions, threshold |-> threshold,
                           keep_all_sources |-> keep_all_sources],
                          r.raised, r.out)
       /\ UNCHANGED <<memory, disk, history, workflow>>

\* deduplicate_questions called again on what the last call returned
DeduplicateOutput ==
    /\ ret.op = "deduplicate_questions"
    /\ ret.raised = ""
    /\ \E r \in { deduplicate_questions(ret.val, ret.arg.threshold,
                                        ret.arg.keep_all_sources) } :
          ret' = Returned("deduplicate_output", <<>>,
                          [ret.arg EXCEPT !.questions = ret.val], r.raised, r.out)
    /\ UNCHANGED <<memory, disk, history, workflow>>

FilterBySemanticDistance(questions, min_distance) ==
    \E r \in { filter_by_semantic_distance(questions, min_distance) } :
       /\ ret' = Returned("filter_by_semantic_distance", <<>>,
                          [questions |-> questions, min_distance |-> min_distance],
                          r.raised, [filtered |-> r.filtered, selected |-> r.selected])
       /\ UNCHANGED <<memory, disk, history, workflow>>

ClusterQuestions(questions, n_clusters) ==
    \E r \in cluster_questions(questions, n_clusters) :
       /\ ret' = Returned("cluster_questions", <<>>,
                          [questions |-> questions, n_clusters |-> n_clusters],
                          r.raised,
                          [clusters |-> r.clusters, labels |-> r.labels,
                           requested |-> r.requested])
       /\ UNCHANGED <<memory, disk, history, workflow>>

EmbedBatch(texts) ==
    \E r \in { embed_batch(texts) } :
       /\ ret' = Returned("embed_batch", <<>>, texts, r.raised, r.vecs)
       /\ UNCHANGED <<memory, disk, history, workflow>>

\* -------------------------------------------------- calls on the retriever
QueryTexts == {"q10", "q01", ""}
TopKs == 1..MaxTopK
Thresholds == { Threshold(0, 1), Threshold(3, 4), Threshold(-1, 4), Threshold(5, 4) }

Retrieve(name, text, top_k) ==
    \E r \in { retrieve(retriever, name, text, top_k,
                        index_files, size_files, metadata_files) } :
       /\ retriever' = r.r
       /\ ret' = Returned("retrieve", name, [query |-> text, top_k |-> top_k],
                          r.raised, r.matches)
       /\ UNCHANGED <<faiss_manager, metadata_store, disk, history, workflow>>

RetrieveWithContext(name, text) ==
    \E r \in { retrieve_with_context(retriever, name, text,
                                     index_files, size_files, metadata_files) } :
       /\ retriever' = r.r
       /\ ret' = Returned("retrieve_with_context", name, text, r.raised, r.context)
       /\ UNCHANGED <<faiss_manager, metadata_store, disk, history, workflow>>

ExplainNoResults(name, text) ==
    \E r \in { explain_no_results(retriever, name, text, index_files, size_files) } :
       /\ retriever' = r.r
       /\ ret' = Returned("explain_no_results", name, text, r.raised, r.info)
       /\ UNCHANGED <<faiss_manager, metadata_store, disk, history, workflow>>

AdjustThreshold(t) ==
    \E r \in { adjust_threshold(retriever, t) } :
       /\ retriever' = r.r
       /\ ret' = Returned("adjust_threshold", <<>>, t, r.raised, 0)
       /\ UNCHANGED <<faiss_manager, metadata_store, disk, history, workflow>>

\* ------------------------------------------------ runs of the workflow graph
\* Each action is one step of the thread q: a node of the graph or, inside
\* ingest_node, one call on the stores the threads share.
At(q, node) == requests[q].node = node
Becomes(q, state) == requests' = [requests EXCEPT ![q] = state]

\* run: graph.invoke(initial_state) on a thread that runs nothing
Run(q, name, user_question, force_ingest) ==
    /\ requests[q].node \in {"idle", "END", "raised"}
    /\ Becomes(q, [NoRun EXCEPT !.node = "decision", !.celebrity_name = name,
                                !.user_question = user_question,
                                !.force_ingest = force_ingest])
    /\ cycles_only' = FALSE
    /\ UNCHANGED <<memory, disk, ret, issued, issued_since, registry>>

DecisionNode(q, llm, is_fresh, agent_raised) ==
    /\ At(q, "decision")
    /\ Becomes(q, decision_node(Visit(requests[q], "decision"),
                                make_decision(registry, requests[q].celebrity_name,
                                              requests[q].force_ingest, llm, is_fresh),
                                agent_raised))
    /\ UNCHANGED <<memory, disk, ret, history, registry>>

RouteAfterDecision(q) ==
    /\ At(q, "route")
    /\ Becomes(q, route_after_decision(requests[q]))
    /\ UNCHANGED <<memory, disk, ret, history, registry>>

\* the room the files leave for a batch of n
RoomInFiles(name, n) ==
    LET p == SafeName(name)
    IN /\ (p \in DOMAIN index_files /\ index_files[p].ok) =>
              Len(index_files[p].xb) + n <= MaxVecs
       /\ (p \in DOMAIN size_files /\ size_files[p].ok) => size_files[p].n + n <= MaxVecs

\* ingest_node up to the call of _index_questions: what the ingesters
\* returned (all_questions), or the exception one of them let out
IngestNode(q, all_questions, ingester_raised) ==
    /\ At(q, "ingest")
    /\ RoomInFiles(requests[q].celebrity_name, Len(all_questions))
    /\ LET state == Visit(requests[q], "ingest")
       IN Becomes(q, IF ingester_raised # "" THEN ingest_except(state, ingester_raised)
                     ELSE IF all_questions = <<>>
                     THEN Returning([state EXCEPT !.ingestion_success = FALSE,
                                                  !.node = "retrieve"])
                     ELSE [state EXCEPT !.all_questions = all_questions,
                                        !.node = "load_index"])
    /\ UNCHANGED <<memory, disk, ret, history, registry>>

\* _index_questions: if not self.faiss_manager.load_index(celebrity_name)
IndexLoadIndex(q) ==
    /\ At(q, "load_index")
    /\ \E r \in { load_index(faiss_manager, requests[q].celebrity_name,
                             index_files, size_files) } :
          /\ faiss_manager' = r.fm
          /\ Becomes(q, AfterCall(requests[q], "load_index", "",
                                  IF r.ret THEN "load_metadata" ELSE "create_index"))
    /\ UNCHANGED <<metadata_store, retriever, disk, ret, history, registry>>

\* self.faiss_manager.create_index(celebrity_name, embedding_dim=384)
IndexCreateIndex(q) ==
    /\ At(q, "create_index")
    /\ faiss_manager' = create_index(faiss_manager, requests[q].celebrity_name, EmbeddingDim)
    /\ Becomes(q, AfterCall(requests[q], "create_index", "", "load_metadata"))
    /\ UNCHANGED <<metadata_store, retriever, disk, ret, history, registry>>

\* self.metadata_store.load_metadata(celebrity_name)
IndexLoadMetadata(q) ==
    /\ At(q, "load_metadata")
    /\ metadata_store' = load_metadata(metadata_store, requests[q].celebrity_name,
                                       metadata_files).md
    /\ Becomes(q, AfterCall(requests[q], "load_metadata", "", "embed_batch"))
    /\ UNCHANGED <<faiss_manager, retriever, disk, ret, history, registry>>

\* embeddings = self.embedder.embed_batch(question_texts, show_progress=True)
IndexEmbedBatch(q) ==
    /\ At(q, "embed_batch")
    /\ \E r \in { embed_batch([i \in DOMAIN requests[q].all_questions |->
                                  requests[q].all_questions[i].text]) } :
          Becomes(q, AfterCall([requests[q] EXCEPT !.embeddings = r.vecs],
                               "embed_batch", r.raised, "add_vectors"))
    /\ UNCHANGED <<memory, disk, ret, history, registry>>

\* faiss_ids = self.faiss_manager.add_vectors(celebrity_name, embeddings)
IndexAddVectors(q) ==
    /\ At(q, "add_vectors")
    /\ \E r \in { add_vectors(faiss_manager, requests[q].celebrity_name,
                              requests[q].embeddings, TRUE) } :
          /\ faiss_manager' = r.fm
          /\ Becomes(q, AfterCall([requests[q] EXCEPT !.faiss_ids = r.ids],
                                  "add_vectors", r.raised, "add_metadata"))
    /\ UNCHANGED <<metadata_store, retriever, disk, ret, history, registry>>

\* self.metadata_store.add_metadata(celebrity_name, faiss_ids, question_texts,
\* metadata_list)
IndexAddMetadata(q) ==
    /\ At(q, "add_metadata")
    /\ LET questions == requests[q].all_questions
       IN \E r \in { add_metadata(metadata_store, requests[q].celebrity_name,
                                  requests[q].faiss_ids,
                                  [i \in DOMAIN questions |-> questions[i].text],
                                  [i \in DOMAIN questions |->
                                      [source_type |-> questions[i].source_type]]) } :
             /\ metadata_store' = r.md
             /\ Becomes(q, AfterCall(requests[q], "add_metadata", r.raised, "save_index"))
    /\ UNCHANGED <<faiss_manager, retriever, disk, ret, history, registry>>

\* self.faiss_manager.save_index(celebrity_name)
IndexSaveIndex(q, fault) ==
    /\ At(q, "save_index")
    /\ \E r \in { save_index(faiss_manager, requests[q].celebrity_name,
                             index_files, size_files, fault) } :
          /\ index_files' = r.index_files
          /\ size_files' = r.size_files
          /\ Becomes(q, AfterCall(requests[q], "save_index", r.raised, "save_metadata"))
    /\ UNCHANGED <<memory, metadata_files, ret, history, registry>>

\* self.metadata_store.save_metadata(celebrity_name)
IndexSaveMetadata(q, fault) ==
    /\ At(q, "save_metadata")
    /\ \E r \in { save_metadata(metadata_store, requests[q].celebrity_name,
                                metadata_files, fault) } :
          /\ metadata_files' = r.metadata_files
          /\ Becomes(q, AfterCall(requests[q], "save_metadata", r.raised, "update_registry"))
    /\ UNCHANGED <<memory, index_files, size_files, ret, history, registry>>

\* ingest_node after _index_questions: update_registry_after_ingest, then
\* state['ingestion_success'] = True
IngestUpdateRegistry(q, fault) ==
    /\ At(q, "update_registry")
    /\ LET questions == requests[q].all_questions
       IN \E r \in { update_registry_after_ingest(
                        registry, requests[q].celebrity_name, Len(questions),
                        { questions[i].source_type : i \in DOMAIN questions }, fault) } :
             /\ registry' = r.registry
             /\ LET state == AfterCall(requests[q], "update_registry", r.raised, "retrieve")
                IN Becomes(q, IF r.raised # "" THEN state
                              ELSE Returning([state EXCEPT !.ingestion_success = TRUE]))
    /\ UNCHANGED <<memory, disk, ret, history>>

\* retrieve_node: retrieve_with_context on the graph's retriever; an exception
\* leaves an empty result
RetrieveNode(q) ==
    /\ At(q, "retrieve")
    /\ \E r \in { retrieve_with_context(retriever, requests[q].celebrity_name,
                                        requests[q].user_question,
                                        index_files, size_files, metadata_files) } :
          /\ retriever' = r.r
          /\ LET state == Visit(requests[q], "retrieve")
             IN Becomes(q, IF r.raised # ""
                           THEN [state EXCEPT !.error = r.raised, !.retrieval_count = 0,
                                              !.node = "generate_answer"]
                           ELSE [state EXCEPT !.retrieval_count = r.context.count,
                                              !.node = "generate_answer"])
    /\ UNCHANGED <<faiss_manager, metadata_store, disk, ret, history, registry>>

\* generate_answer_node: the answer generate_natural_response returned, or
\* the fixed message when it raised
GenerateAnswerNode(q, generator_raised) ==
    /\ At(q, "generate_answer")
    /\ LET state == Visit(requests[q], "generate_answer")
       IN Becomes(q, IF generator_raised # ""
                     THEN [state EXCEPT !.error = generator_raised,
                                        !.final_answer = "An error occurred while generating the answer.",
                                        !.node = "END"]
                     ELSE [state EXCEPT !.final_answer = "answer", !.node = "END"])
    /\ UNCHANGED <<memory, disk, ret, history, registry>>

\* ------------------------------------------------------------ specification
\* Spec: any sequence of calls on the graph's FAISSIndexManager and
\* MetadataStore, writes that fail part way, and restarts of the process.
StoreNames == { <<"A", "l">> }

Next ==
    \/ \E name \in StoreNames, dim \in Dims : CreateIndex(name, dim)
    \/ \E name \in StoreNames : LoadIndex(name)
    \/ \E name \in StoreNames, fault \in SaveIndexFaults : SaveIndex(name, fault)
    \/ \E name \in StoreNames, vectors \in VectorBatches :
          AddVectors(name, vectors, TRUE)
    \/ \E name \in StoreNames : Search(name, "q10", 1)
    \/ \E name \in StoreNames : GetIndexSize(name)
    \/ \E name \in StoreNames : DeleteIndex(name)
    \/ \E name \in StoreNames : LoadMetadata(name)
    \/ \E name \in StoreNames, fault \in SaveMetadataFaults : SaveMetadata(name, fault)
    \/ \E name \in StoreNames, faiss_ids \in IdBatches, questions \in MetadataBatches :
          AddMetadata(name, faiss_ids, questions)
    \/ \E name \in StoreNames : DeleteMetadata(name)
    \/ Crash

Spec == Init /\ [][Next]_vars

\* SpecIngest: ingestion cycles of the workflow graph under either spelling of
\* a name, cycles that are interrupted, and restarts of the process.
IngestFaults == {"none", "stop_before_save", "index_write", "metadata_open"}

NextIngest ==
    \/ \E name \in Names, questions \in IngestBatches, fault \in IngestFaults :
          IndexQuestions(name, questions, fault)
    \/ Crash

SpecIngest == Init /\ [][NextIngest]_vars

\* SpecQuery: a process that starts over the files earlier processes left
\* (each MaxCycles or fewer ingestion cycles, interrupted ones among them, or a
\* create followed by the two saves) and queries them through the retriever.
QueryNames == { <<"A", "l">> }
QueryBatches == { <<Question("q10", "youtube")>>, <<Question("q11", "article")>> }

Files(i, s, m) == [index_files |-> i, size_files |-> s, metadata_files |-> m]
NoFiles == Files(EmptyDict, EmptyDict, EmptyDict)
\* the files after one run of _index_questions in a fresh process
CycleFiles(files, name, questions, fault) ==
    LET r == _index_questions(NewManager, NewStore, name, questions,
                              files.index_files, files.size_files, files.metadata_files,
                              fault)
    IN Files(r.index_files, r.size_files, r.metadata_files)
\* the files after create_index, load_metadata, save_index, save_metadata
EmptySavedFiles(name) ==
    LET si == save_index(create_index(NewManager, name, EmbeddingDim), name,
                         EmptyDict, EmptyDict, "none")
        sm == save_metadata(load_metadata(NewStore, name, EmptyDict).md, name,
                            EmptyDict, "none")
    IN Files(si.index_files, si.size_files, sm.metadata_files)
Fits(files) ==
    \A p \in DOMAIN files.index_files :
        files.index_files[p].ok => Len(files.index_files[p].xb) <= MaxVecs
RECURSIVE FilesAfter(_)
FilesAfter(n) ==
    IF n = 0 THEN {NoFiles} \cup { EmptySavedFiles(name) : name \in QueryNames }
    ELSE LET prev == FilesAfter(n - 1)
         IN prev \cup
            { f \in { CycleFiles(files, name, questions, fault) :
                        files \in prev, name \in QueryNames,
                        questions \in QueryBatches, fault \in CycleFaults } : Fits(f) }

InitQuery ==
    /\ faiss_manager = NewManager
    /\ metadata_store = NewStore
    /\ retriever = NewRetriever
    /\ \E files \in FilesAfter(MaxCycles) :
          /\ index_files = files.index_files
          /\ size_files = files.size_files
          /\ metadata_files = files.metadata_files
    /\ ret = Returned("init", <<>>, 0, "", 0)
    /\ issued = NoIds
    /\ issued_since = NoIds
    /\ cycles_only = FALSE
    /\ requests = [q \in Requests |-> NoRun]
    /\ registry = NoRegistry

NextQuery ==
    \/ \E name \in QueryNames, text \in QueryTexts, top_k \in TopKs :
          Retrieve(name, text, top_k)
    \/ \E name \in QueryNames : RetrieveWithContext(name, "q10")
    \/ \E name \in QueryNames : ExplainNoResults(name, "q10")
    \/ \E t \in Thresholds : AdjustThreshold(t)

SpecQuery == InitQuery /\ [][NextQuery]_vars

\* SpecDegenerate: calls on the FAISSIndexManager with zero vectors among the
\* rows added.
DegenerateBatches == BatchesOver({ <<1, 0>>, <<0, 0>> })

NextDegenerate ==
    \/ \E name \in StoreNames, dim \in Dims : CreateIndex(name, dim)
    \/ \E name \in StoreNames : LoadIndex(name)
    \/ \E name \in StoreNames : SaveIndex(name, "none")
    \/ \E name \in StoreNames, vectors \in DegenerateBatches :
          AddVectors(name, vectors, TRUE)
    \/ \E name \in StoreNames, text \in {"q10", "q01"} : Search(name, text, 1)
    \/ \E name \in StoreNames : GetIndexSize(name)
    \/ Crash

SpecDegenerate == Init /\ [][NextDegenerate]_vars

\* SpecSpellings: calls on the graph's FAISSIndexManager and MetadataStore
\* under either spelling of one name; no write fails.
SpellingBatches == { << <<1, 0>> >> }

NextSpellings ==
    \/ \E name \in Names, dim \in Dims : CreateIndex(name, dim)
    \/ \E name \in Names : SaveIndex(name, "none")
    \/ \E name \in Names, vectors \in SpellingBatches : AddVectors(name, vectors, TRUE)
    \/ \E name \in Names : Search(name, "q10", 1)
    \/ \E name \in Names : GetIndexSize(name)
    \/ \E name \in Names : DeleteIndex(name)
    \/ \E name \in Names : SaveMetadata(name, "none")
    \/ \E name \in Names, faiss_ids \in IdBatches :
          AddMetadata(name, faiss_ids, <<Question("q10", "youtube")>>)
    \/ \E name \in Names : DeleteMetadata(name)

SpecSpellings == Init /\ [][NextSpellings]_vars

\* SpecMetadata: calls on the MetadataStore, add_metadata with ids in either
\* order, a repeated id, and sequences of different lengths.
RowIds == { <<0>>, <<0, 1>>, <<1, 0>>, <<1, 1>> }
RowQuestions == { <<"q10">>, <<"q10", "q11">> }
RowSources == { << [source_type |-> "youtube"] >>,
                << [source_type |-> "youtube"], [source_type |-> "article"] >> }

NextMetadata ==
    \/ \E name \in StoreNames, faiss_ids \in RowIds, questions \in RowQuestions,
          sources \in RowSources : AddMetadataRows(name, faiss_ids, questions, sources)
    \/ \E name \in StoreNames : LoadMetadata(name)
    \/ \E name \in StoreNames : SaveMetadata(name, "none")
    \/ \E name \in StoreNames : DeleteMetadata(name)
    \/ Crash

SpecMetadata == Init /\ [][NextMetadata]_vars

\* SpecChunker: deduplicate_questions on batches of questions, on its own
\* output, and embed_batch on batches of texts, blank texts among them.
ChunkerQuestion(text, source_url) == [text |-> text, source_url |-> source_url]
ChunkerQuestions ==
    { ChunkerQuestion("q10", "u1"), ChunkerQuestion("q11", "u2"),
      ChunkerQuestion("q01", "u3"), ChunkerQuestion(" ", "u4") }
ChunkerBatches == UNION { [1..n -> ChunkerQuestions] : n \in 0..MaxQuestions }
ChunkerThresholds == { Threshold(1, 2), Threshold(3, 4) }
TextBatches == UNION { [1..n -> {"q10", "q11", " "}] : n \in 0..MaxQuestions }
MinDistances == { Threshold(1, 4), Threshold(1, 2) }
ClusterBatches ==
    { [i \in 1..n |-> ChunkerQuestion("q10", "u1")] : n \in 0..MaxClusterItems }
    \cup { << ChunkerQuestion("q10", "u1"), ChunkerQuestion("q11", "u2"),
              ChunkerQuestion(" ", "u4") >> }
ClusterCounts == { <<>>, <<3>> }

NextChunker ==
    \/ \E questions \in ChunkerBatches, threshold \in ChunkerThresholds,
          keep_all_sources \in BOOLEAN :
          Deduplicate(questions, threshold, keep_all_sources)
    \/ DeduplicateOutput
    \/ \E questions \in ChunkerBatches, min_distance \in MinDistances :
          FilterBySemanticDistance(questions, min_distance)
    \/ \E questions \in ClusterBatches, n_clusters \in ClusterCounts :
          ClusterQuestions(questions, n_clusters)
    \/ \E texts \in TextBatches : EmbedBatch(texts)

SpecChunker == Init /\ [][NextChunker]_vars

\* SpecWorkflow: runs of the graph one after another on one thread, with what
\* the collaborators can return or raise and the write failures of the saves.
WorkflowNames == { <<"A", "l">> }
WorkflowBatches == { <<>>, <<Question("q10", "youtube")>>,
                     <<Question("q10", "youtube"), Question(" ", "podcast")>> }
Raises == {"", "Exception"}

NextWorkflow ==
    \/ \E name \in WorkflowNames, force_ingest \in BOOLEAN :
          Run("t1", name, "q10", force_ingest)
    \/ \E llm \in LLMAnswers, is_fresh \in BOOLEAN, agent_raised \in Raises :
          DecisionNode("t1", llm, is_fresh, agent_raised)
    \/ RouteAfterDecision("t1")
    \/ \E all_questions \in WorkflowBatches, ingester_raised \in Raises :
          IngestNode("t1", all_questions, ingester_raised)
    \/ IndexLoadIndex("t1")
    \/ IndexCreateIndex("t1")
    \/ IndexLoadMetadata("t1")
    \/ IndexEmbedBatch("t1")
    \/ IndexAddVectors("t1")
    \/ IndexAddMetadata("t1")
    \/ \E fault \in SaveIndexFaults : IndexSaveIndex("t1", fault)
    \/ \E fault \in SaveMetadataFaults : IndexSaveMetadata("t1", fault)
    \/ \E fault \in RegistryFaults : IngestUpdateRegistry("t1", fault)
    \/ RetrieveNode("t1")
    \/ \E generator_raised \in Raises : GenerateAnswerNode("t1", generator_raised)

SpecWorkflow == Init /\ [][NextWorkflow]_vars

\* SpecConcurrent: two /api/chat requests for one celebrity, both with
\* force_ingest, each run once on its own thread of the executor; the threads
\* take their steps in any order. Nothing fails.
ThreadQuestions == [t1 |-> <<Question("q10", "youtube")>>,
                    t2 |-> <<Question("q01", "article")>>]

NextConcurrent ==
    \/ \E q \in Requests, name \in WorkflowNames :
          At(q, "idle") /\ Run(q, name, "q10", TRUE)
    \/ \E q \in Requests :
          DecisionNode(q, [decision |-> "INGEST", raised |-> ""], TRUE, "")
    \/ \E q \in Requests : RouteAfterDecision(q)
    \/ \E q \in Requests : IngestNode(q, ThreadQuestions[q], "")
    \/ \E q \in Requests : IndexLoadIndex(q)
    \/ \E q \in Requests : IndexCreateIndex(q)
    \/ \E q \in Requests : IndexLoadMetadata(q)
    \/ \E q \in Requests : IndexEmbedBatch(q)
    \/ \E q \in Requests : IndexAddVectors(q)
    \/ \E q \in Requests : IndexAddMetadata(q)
    \/ \E q \in Requests : IndexSaveIndex(q, "none")
    \/ \E q \in Requests : IndexSaveMetadata(q, "none")
    \/ \E q \in Requests : IngestUpdateRegistry(q, "none")
    \/ \E q \in Requests : RetrieveNode(q)
    \/ \E q \in Requests : GenerateAnswerNode(q, "")

SpecConcurrent == Init /\ [][NextConcurrent]_vars

\* ================================================================== claims
PersistedAt(p) ==
    p \in DOMAIN index_files \/ p \in DOMAIN size_files \/ p \in DOMAIN metadata_files
Readable(files, p) == p \in DOMAIN files /\ files[p].ok
Unreadable(files, p) == p \in DOMAIN files /\ ~files[p].ok
MetadataKeys(p) == { ParseInt(s) : s \in DOMAIN metadata_files[p].data }
Aligned(p) ==
    PersistedAt(p) =>
        /\ Readable(index_files, p)
        /\ Readable(size_files, p)
        /\ Readable(metadata_files, p)
        /\ size_files[p].n = Len(index_files[p].xb)
        /\ Cardinality(DOMAIN metadata_files[p].data) = size_files[p].n
        /\ MetadataKeys(p) = 0 .. (size_files[p].n - 1)

\* C1 (SpecIngest): as long as every ingestion cycle so far has completed
\* without raising, each persisted namespace holds as many vectors (in the
\* .faiss file and in its size side-car) as metadata records, and the metadata
\* keys are exactly the vector ids 0..size-1.
C1_IdAlignment == cycles_only => \A p \in Paths : Aligned(p)

\* two successful cycles under the two spellings of one name have been saved
C1_TwoCyclesSaved ==
    /\ cycles_only
    /\ ret.op = "_index_questions"
    /\ \E p \in Paths :
          /\ Readable(metadata_files, p)
          /\ Readable(index_files, p)
          /\ Len(index_files[p].xb) = 2
          /\ { metadata_files[p].data[s].celebrity_name :
                 s \in DOMAIN metadata_files[p].data } = Names

\* ---------------------------------------------------------------------- C2
PersistedSize(p) ==
    IF p \in DOMAIN size_files THEN size_files[p].n ELSE Len(index_files[p].xb)
PersistedNonEmpty(p) ==
    /\ Readable(index_files, p)
    /\ Readable(metadata_files, p)
    /\ (p \in DOMAIN size_files => size_files[p].ok)
    /\ PersistedSize(p) > 0
QueryVector(text) == Normalized(Encode(text))
RowScore(p, q, i) == InnerProduct(index_files[p].xb[i], q)
ScoredRows(p, q) ==
    { i \in 1..Len(index_files[p].xb) : ~ScoreIsNaN(RowScore(p, q, i)) }
\* T is a choice of the k highest-scoring rows
IsTopSet(p, q, T, k) ==
    /\ T \subseteq ScoredRows(p, q)
    /\ Cardinality(T) = Min(k, Cardinality(ScoredRows(p, q)))
    /\ \A i \in T, j \in ScoredRows(p, q) \ T :
          ~ScoreGT(RowScore(p, q, j), RowScore(p, q, i))
\* the rows of T that pass the threshold and have a metadata record
Qualifying(p, q, T, threshold) ==
    { i \in T : /\ ScoreGE(RowScore(p, q, i), ThresholdScore(threshold))
                /\ Str(i - 1) \in DOMAIN metadata_files[p].data }
ExpectedMatch(p, q, i) ==
    [f \in (DOMAIN metadata_files[p].data[Str(i - 1)]) \cup {"similarity_score"} |->
        IF f = "similarity_score" THEN RowScore(p, q, i)
        ELSE metadata_files[p].data[Str(i - 1)][f]]
SortedDescending(matches) ==
    \A a, b \in DOMAIN matches :
        a < b => ~ScoreGT(matches[b].similarity_score, matches[a].similarity_score)

ContiguousFrom(ids, start) == ids = [i \in 1..Len(ids) |-> start + i - 1]

\* C3 as stated (Spec): every successful add_vectors returns the contiguous
\* ids that start at the size the namespace had before the call, and none of
\* them was returned by an earlier add_vectors on the namespace since it was
\* last deleted.
C3_IdsNeverReused ==
    [][ (ret'.op = "add_vectors" /\ ret'.raised = "") =>
            /\ ContiguousFrom(ret'.val, get_index_size(faiss_manager, ret'.name))
            /\ Range(ret'.val) \cap issued[ret'.name] = {}
      ]_vars

\* C3 amended (Spec): every successful add_vectors returns the contiguous ids
\* that start at the size the manager tracked before the call, and none of
\* them was returned by an earlier add_vectors made on the namespace since
\* the manager last created or loaded it.
C3_IdsUniqueSinceCreateOrLoad ==
    [][ (ret'.op = "add_vectors" /\ ret'.raised = "") =>
            /\ ContiguousFrom(ret'.val, get_index_size(faiss_manager, ret'.name))
            /\ Range(ret'.val) \cap issued_since[ret'.name] = {}
      ]_vars

\* a second add_vectors since the create or load, continuing the numbering
C3_SecondBatchNumbered ==
    /\ ret.op = "add_vectors"
    /\ ret.raised = ""
    /\ ret.val # <<>>
    /\ ret.val[1] > 0
    /\ issued_since[ret.name] \ Range(ret.val) # {}

\* ---------------------------------------------------------------------- C4
\* C4 as stated (Spec): whatever interrupts save_index, the .faiss file and
\* the size side-car are together either as they were or as the completed save
\* leaves them; whatever interrupts save_metadata, the metadata file is either
\* as it was or as the completed save leaves it.
C4_SaveIsAtomic ==
    [][ /\ ret'.op = "save_index" =>
             LET done == save_index(faiss_manager, ret'.name, index_files, size_files, "none")
             IN <<index_files', size_files'>> \in
                    { <<index_files, size_files>>, <<done.index_files, done.size_files>> }
        /\ ret'.op = "save_metadata" =>
             LET done == save_metadata(metadata_store, ret'.name, metadata_files, "none")
             IN metadata_files' \in { metadata_files, done.metadata_files }
      ]_vars

\* ---------------------------------------------------------------------- C5
\* C5 (Spec): a call of add_vectors or add_metadata leaves every file as it
\* is, and so does the process stopping; what a load after the stop reads is
\* what the last save wrote.
C5_AddsChangeMemoryOnly ==
    [][ ret'.op \in {"add_vectors", "add_metadata", "crash"} => UNCHANGED disk ]_vars

\* add_vectors has put a row in memory that the .faiss file on disk lacks
C5_UnsavedBatch ==
    /\ ret.op = "add_vectors"
    /\ ret.raised = ""
    /\ Readable(index_files, _get_index_path(ret.name))
    /\ Len(index_files[_get_index_path(ret.name)].xb)
           < ntotal(faiss_manager.indexes[ret.name])

\* ---------------------------------------------------------------------- C6
ThresholdLT(t1, t2) == t1.num * t2.den < t2.num * t1.den
ValidThresholds ==
    { t \in Thresholds \cup {DefaultThreshold} : adjust_threshold(NewRetriever, t).raised = "" }
\* what retrieve returns once adjust_threshold(t) has been called
RetrieveAt(t, name, text, top_k) ==
    retrieve(adjust_threshold(retriever, t).r, name, text, top_k,
             index_files, size_files, metadata_files).matches

\* C6 (SpecQuery): whatever retrieve has just returned at the current
\* threshold t2 is among what it returns, for the same files, query and top_k,
\* at every lower threshold t1 set through adjust_threshold.
C6_ThresholdMonotone ==
    (ret.op = "retrieve" /\ ret.raised = "") =>
        \A t1 \in ValidThresholds :
            ThresholdLT(t1, retriever.similarity_threshold) =>
                Range(ret.val) \subseteq
                    Range(RetrieveAt(t1, ret.name, ret.arg.query, ret.arg.top_k))

\* a retrieve at threshold 3/4 that returned less than the same retrieve at 0
C6_StrictlyFewerAtHigher ==
    /\ ret.op = "retrieve"
    /\ ret.raised = ""
    /\ retriever.similarity_threshold = Threshold(3, 4)
    /\ Len(ret.val) = 1
    /\ Len(RetrieveAt(Threshold(0, 1), ret.name, ret.arg.query, ret.arg.top_k)) = 2

\* ---------------------------------------------------------------------- C7
NoPersistedIndex(p) == p \notin DOMAIN index_files
EmptyPersistedIndex(p) ==
    /\ Readable(index_files, p)
    /\ Len(index_files[p].xb) = 0
    /\ (p \in DOMAIN size_files => size_files[p].ok /\ size_files[p].n = 0)
NoSearchableData(p) == NoPersistedIndex(p) \/ EmptyPersistedIndex(p)

C8_FailuresPropagate ==
    /\ (/\ ret.op = "load_index"
        /\ \/ Unreadable(index_files, _get_index_path(ret.name))
           \/ (/\ Readable(index_files, _get_index_path(ret.name))
               /\ Unreadable(size_files, _get_size_path(ret.name))))
          => ret.raised # ""
    /\ (/\ ret.op = "load_metadata"
        /\ Unreadable(metadata_files, _get_metadata_path(ret.name)))
          => ret.raised # ""
    /\ (/\ ret.op = "save_index"
        /\ ret.arg # "none"
        /\ ret.name \in DOMAIN faiss_manager.indexes)
          => ret.raised # ""
    /\ (/\ ret.op = "save_metadata"
        /\ ret.arg # "none"
        /\ ret.name \in DOMAIN metadata_store)
          => ret.raised # ""

\* ---------------------------------------------------------------------- C9
\* C9 as stated (Spec): add_vectors, search, save_index and get_index_size on
\* a name the manager holds neither an index nor a size for raise an error and
\* leave memory and files as they are.
C9_UnknownNamespaceRaises ==
    [][ (/\ ret'.op \in {"add_vectors", "search", "save_index", "get_index_size"}
         /\ ret'.name \notin DOMAIN faiss_manager.indexes
         /\ ret'.name \notin DOMAIN faiss_manager.index_sizes) =>
            /\ ret'.raised # ""
            /\ UNCHANGED <<memory, disk>>
      ]_vars

\* --------------------------------------------------------------------- C10
WrongWidth(vectors, index) == \E i \in DOMAIN vectors : Len(vectors[i]) # index.d

\* C10 (Spec): add_vectors with rows whose width differs from the dimension
\* of the namespace's index raises (the AssertionError of index.add is the
\* dimension mismatch) and leaves the stored rows and the size as they are.
C10_WrongWidthRejected ==
    [][ (/\ ret'.op = "add_vectors"
         /\ ret'.name \in DOMAIN faiss_manager.indexes
         /\ WrongWidth(ret'.arg, faiss_manager.indexes[ret'.name])) =>
            /\ ret'.raised = "AssertionError"
            /\ faiss_manager' = faiss_manager
      ]_vars

\* rows of the wrong width were refused by an index that already holds a row
C10_WrongWidthRefused ==
    /\ ret.op = "add_vectors"
    /\ ret.raised = "AssertionError"
    /\ ret.name \in DOMAIN faiss_manager.indexes
    /\ WrongWidth(ret.arg, faiss_manager.indexes[ret.name])
    /\ ntotal(faiss_manager.indexes[ret.name]) > 0

\* --------------------------------------------------------------------- C11
HasZeroNorm(vectors) == \E i \in DOMAIN vectors : Norm2(vectors[i]) = 0

\* C11 as stated (SpecDegenerate): add_vectors with normalize=True on a batch
\* that holds a zero-norm row raises and appends nothing, so that every row an
\* index holds has unit length.
C11_ZeroNormRejected ==
    [][ (/\ ret'.op = "add_vectors"
         /\ ret'.name \in DOMAIN faiss_manager.indexes
         /\ HasZeroNorm(ret'.arg)) =>
            /\ ret'.raised # ""
            /\ faiss_manager' = faiss_manager
            /\ \A n \in DOMAIN faiss_manager'.indexes :
                  \A i \in 1..ntotal(faiss_manager'.indexes[n]) :
                      IsUnit(faiss_manager'.indexes[n].xb[i])
      ]_vars

\* --------------------------------------------------------------------- C16
\* C16 as stated (Spec): after delete_index the name has no index and no size
\* in memory, neither of its two index files exists and load_index answers
\* False; after delete_metadata the name has no records in memory, its
\* metadata file does not exist and load_metadata answers False.
C16_DeleteLeavesNothing ==
    /\ ret.op = "delete_index" =>
          /\ ~index_exists(ret.name, index_files)
          /\ _get_size_path(ret.name) \notin DOMAIN size_files
          /\ ret.name \notin DOMAIN faiss_manager.indexes
          /\ get_index_size(faiss_manager, ret.name) = 0
          /\ ~load_index(faiss_manager, ret.name, index_files, size_files).ret
    /\ ret.op = "delete_metadata" =>
          /\ ret.name \notin DOMAIN metadata_store
          /\ _get_metadata_path(ret.name) \notin DOMAIN metadata_files
          /\ \A id \in 0..MaxVecs : get_metadata(metadata_store, ret.name, id) = NoRecord
          /\ ~load_metadata(metadata_store, ret.name, metadata_files).ret

\* --------------------------------------------------------------------- C17
\* C17 as stated (SpecSpellings): two names that differ only in letter case
\* are one namespace: the manager holds an index for both or for neither, the
\* same index and the same size, and the store holds the same records for
\* both or for neither.
C17_SpellingsShareNamespace ==
    \A n1, n2 \in Names :
        SafeName(n1) = SafeName(n2) =>
            /\ n1 \in DOMAIN faiss_manager.indexes <=> n2 \in DOMAIN faiss_manager.indexes
            /\ get_index_size(faiss_manager, n1) = get_index_size(faiss_manager, n2)
            /\ (n1 \in DOMAIN faiss_manager.indexes /\ n2 \in DOMAIN faiss_manager.indexes)
                  => faiss_manager.indexes[n1] = faiss_manager.indexes[n2]
            /\ n1 \in DOMAIN metadata_store <=> n2 \in DOMAIN metadata_store
            /\ (n1 \in DOMAIN metadata_store /\ n2 \in DOMAIN metadata_store)
                  => metadata_store[n1] = metadata_store[n2]

\* --------------------------------------------------------------------- C12
SameLengths(a) ==
    Len(a.faiss_ids) = Len(a.questions) /\ Len(a.faiss_ids) = Len(a.sources)

\* C12 (SpecMetadata): add_metadata raises ValueError when the three
\* sequences are not of one length; otherwise it raises nothing, the name's
\* keys afterwards are its keys before and the ids given, every id given holds
\* the record made of the name and of the text and the source at the (last)
\* position of that id, and every other record is as it was.
C12_OneRecordPerId ==
    [][ ret'.op = "add_metadata" =>
          LET a == ret'.arg
              name == ret'.name
              before == Get(metadata_store, name, EmptyDict)
          IN IF ~SameLengths(a) THEN ret'.raised = "ValueError"
             ELSE /\ ret'.raised = ""
                  /\ DOMAIN metadata_store'[name] = (DOMAIN before) \cup Range(a.faiss_ids)
                  /\ \A id \in (DOMAIN before) \ Range(a.faiss_ids) :
                        metadata_store'[name][id] = before[id]
                  /\ \A i \in DOMAIN a.faiss_ids :
                        (\A j \in DOMAIN a.faiss_ids : a.faiss_ids[j] = a.faiss_ids[i] => j <= i)
                        => /\ metadata_store'[name][a.faiss_ids[i]].celebrity_name = name
                           /\ metadata_store'[name][a.faiss_ids[i]].question_text = a.questions[i]
                           /\ metadata_store'[name][a.faiss_ids[i]].source_type
                                 = a.sources[i].source_type
      ]_vars

\* add_metadata has stored two records, under the ids 1 and 0 in that order
C12_TwoRecordsStored ==
    /\ ret.op = "add_metadata"
    /\ ret.raised = ""
    /\ ret.arg.faiss_ids = <<1, 0>>
    /\ metadata_store[ret.name][1].question_text = "q10"
    /\ metadata_store[ret.name][0].question_text = "q11"
    /\ metadata_store[ret.name][0].source_type = "article"

\* --------------------------------------------------------------------- C13
SearchableIndex(p) ==
    /\ Readable(index_files, p)
    /\ (p \in DOMAIN size_files => size_files[p].ok)
    /\ PersistedSize(p) > 0
\* the ids that have a record in the metadata file, none when it cannot be read
RecordedIds(p) ==
    IF Readable(metadata_files, p) THEN MetadataKeys(p) ELSE {}
\* the rows of T at or above the threshold
Passing(p, q, T, threshold) ==
    { i \in T : ScoreGE(RowScore(p, q, i), ThresholdScore(threshold)) }

\* C13 (SpecQuery): a retrieve with a non-blank query on a readable,
\* non-empty index raises nothing, whatever the state of the metadata file,
\* and returns one match for each of the min(top_k, size) best rows that is at
\* or above the threshold and has a metadata record; rows at or above the
\* threshold without a record add nothing to the result.
C13_MissingMetadataSkipped ==
    (/\ ret.op = "retrieve"
     /\ ~IsBlank(ret.arg.query)
     /\ SearchableIndex(SafeName(ret.name))) =>
        LET p == SafeName(ret.name)
            q == QueryVector(ret.arg.query)
            k == Min(ret.arg.top_k, PersistedSize(p))
        IN /\ ret.raised = ""
           /\ \E T \in SUBSET (1..Len(index_files[p].xb)) :
                 /\ IsTopSet(p, q, T, k)
                 /\ LET kept == { i \in Passing(p, q, T, retriever.similarity_threshold) :
                                     (i - 1) \in RecordedIds(p) }
                    IN /\ Len(ret.val) = Cardinality(kept)
                       /\ \A i \in kept :
                             \E a \in DOMAIN ret.val :
                                /\ ret.val[a].similarity_score = RowScore(p, q, i)
                                /\ ret.val[a].question_text
                                      = metadata_files[p].data[Str(i - 1)].question_text

\* of two rows at or above the threshold one has no record: one match returned
C13_OneOfTwoHasNoRecord ==
    /\ ret.op = "retrieve"
    /\ ret.raised = ""
    /\ SearchableIndex(SafeName(ret.name))
    /\ Readable(metadata_files, SafeName(ret.name))
    /\ ret.arg.top_k = 2
    /\ Len(index_files[SafeName(ret.name)].xb) = 2
    /\ Cardinality(Passing(SafeName(ret.name), QueryVector(ret.arg.query), {1, 2},
                           retriever.similarity_threshold)) = 2
    /\ RecordedIds(SafeName(ret.name)) = {0}
    /\ Len(ret.val) = 1

\* --------------------------------------------------------------------- C14
\* C14 as stated (SpecQuery): explain_no_results raises nothing and returns
\* the reason no_index when no index is persisted and empty_index when the
\* persisted index holds zero vectors; when the persisted index holds at
\* least one vector and the metadata is aligned with it, it raises nothing
\* and returns the raw score of a highest-scoring row together with that
\* row's metadata record.
C14_ExplainReturnsClosest ==
    ret.op = "explain_no_results" =>
        LET p == SafeName(ret.name)
            q == QueryVector(ret.arg)
        IN /\ NoPersistedIndex(p) => (ret.raised = "" /\ ret.val.reason = "no_index")
           /\ EmptyPersistedIndex(p) => (ret.raised = "" /\ ret.val.reason = "empty_index")
           /\ (PersistedAt(p) /\ Aligned(p) /\ PersistedSize(p) > 0) =>
                 /\ ret.raised = ""
                 /\ "closest_match" \in DOMAIN ret.val
                 /\ \E i \in ScoredRows(p, q) :
                       /\ \A j \in ScoredRows(p, q) :
                             ~ScoreGT(RowScore(p, q, j), RowScore(p, q, i))
                       /\ ret.val.closest_similarity = RowScore(p, q, i)
                       /\ ret.val.closest_match # NoRecord
                       /\ ret.val.closest_match.question_text
                             = metadata_files[p].data[Str(i - 1)].question_text

\* --------------------------------------------------------------------- C15
\* 0 <= t <= 1 for the rational t
InUnitInterval(t) == t.den > 0 /\ 0 <= t.num /\ t.num <= t.den

\* C15 (SpecQuery): adjust_threshold(t) with 0 <= t <= 1 raises nothing and
\* makes t the retriever's threshold; with any other t it raises ValueError
\* and leaves the threshold as it was; no other call on the retriever changes
\* the threshold.
C15_ThresholdValidated ==
    [][ /\ ret'.op = "adjust_threshold" =>
             IF InUnitInterval(ret'.arg)
             THEN /\ ret'.raised = ""
                  /\ retriever'.similarity_threshold = ret'.arg
             ELSE /\ ret'.raised = "ValueError"
                  /\ retriever'.similarity_threshold = retriever.similarity_threshold
        /\ ret'.op # "adjust_threshold" =>
             retriever'.similarity_threshold = retriever.similarity_threshold
      ]_vars

\* a threshold above 1 was refused after the threshold had been set to 3/4
C15_InvalidRefused ==
    /\ ret.op = "adjust_threshold"
    /\ ret.arg = Threshold(5, 4)
    /\ ret.raised = "ValueError"
    /\ retriever.similarity_threshold = Threshold(3, 4)

\* --------------------------------------------------------------------- C18
\* what a fresh manager and a fresh store read from the files
LoadedIndex(name, ifiles, sfiles) == load_index(NewManager, name, ifiles, sfiles)
LoadedMetadata(name, mfiles) == load_metadata(NewStore, name, mfiles)
SearchResults(fm, name) ==
    [text \in {"q10", "q01"} |->
        [k \in 1..MaxTopK |-> search(fm, name, Encode(text), k, TRUE)]]

\* C18 (SpecIngest): (1) after an ingestion cycle that raised nothing, a
\* fresh manager and store load from the files exactly the index, the size
\* and the integer-keyed records the cycle left in memory; (2) for whatever
\* files a load succeeds on, saving what was loaded and loading again gives
\* the same index, size and records, and every search the same results.
C18_RoundTrip ==
    /\ (ret.op = "_index_questions" /\ ret.raised = "") =>
          LET l == LoadedIndex(ret.name, index_files, size_files)
              m == LoadedMetadata(ret.name, metadata_files)
          IN /\ l.ret /\ m.ret
             /\ l.fm.indexes[ret.name] = faiss_manager.indexes[ret.name]
             /\ ret.name \in DOMAIN l.fm.index_sizes
             /\ get_index_size(l.fm, ret.name) = get_index_size(faiss_manager, ret.name)
             /\ m.md[ret.name] = metadata_store[ret.name]
    /\ \A name \in Names :
          LET l1 == LoadedIndex(name, index_files, size_files)
              m1 == LoadedMetadata(name, metadata_files)
          IN /\ l1.ret =>
                   LET s == save_index(l1.fm, name, index_files, size_files, "none")
                       l2 == LoadedIndex(name, s.index_files, s.size_files)
                   IN /\ s.raised = ""
                      /\ l2.ret
                      /\ l2.fm = l1.fm
                      /\ SearchResults(l2.fm, name) = SearchResults(l1.fm, name)
             /\ m1.ret =>
                   LET s == save_metadata(m1.md, name, metadata_files, "none")
                       m2 == LoadedMetadata(name, s.metadata_files)
                   IN /\ s.raised = ""
                      /\ m2.ret
                      /\ m2.md = m1.md

\* a cycle has saved two vectors and the records 0 and 1, and they load back
C18_TwoRecordsReloaded ==
    /\ ret.op = "_index_questions"
    /\ ret.raised = ""
    /\ LoadedIndex(ret.name, index_files, size_files).ret
    /\ get_index_size(LoadedIndex(ret.name, index_files, size_files).fm, ret.name) = 2
    /\ DOMAIN LoadedMetadata(ret.name, metadata_files).md[ret.name] = {0, 1}

\* --------------------------------------------------------------------- C19
\* C19 (SpecChunker): deduplicate_questions applied to what
\* deduplicate_questions returned, with the same threshold, raises nothing
\* and returns its input: the same records in the same order, with the same
\* duplicate_count and all_sources.
C19_DedupIdempotent ==
    ret.op = "deduplicate_output" =>
        /\ ret.raised = ""
        /\ ret.val = ret.arg.questions

\* the first pass merged a group of two out of three questions, and the
\* second pass was given its two records
C19_MergedThenRepeated ==
    /\ ret.op = "deduplicate_output"
    /\ Len(ret.arg.questions) = 2
    /\ "duplicate_count" \in DOMAIN ret.arg.questions[1]
    /\ ret.arg.questions[1].duplicate_count = 2
    /\ Len(ret.val) = 2

\* --------------------------------------------------------------------- C20
\* C20 as stated (SpecChunker): embed_batch raises when the list is empty or
\* any text is blank, and otherwise returns as many rows as texts, row i the
\* embedding of texts[i].
C20_OneRowPerText ==
    ret.op = "embed_batch" =>
        IF ret.arg = <<>> \/ \E i \in DOMAIN ret.arg : IsBlank(ret.arg[i])
        THEN ret.raised # ""
        ELSE /\ ret.raised = ""
             /\ Len(ret.val) = Len(ret.arg)
             /\ \A i \in DOMAIN ret.arg : ret.val[i] = Encode(ret.arg[i])

\* --------------------------------------------------------------------- C26
\* C26 as stated (Spec): in every reachable state, for every namespace the
\* manager holds, the tracked size (index_sizes) is the number of vectors the
\* index holds, so that the ids add_vectors returns are the rows search reports.
C26_TrackedSizeIsHeldSize ==
    \A name \in DOMAIN faiss_manager.indexes :
        /\ name \in DOMAIN faiss_manager.index_sizes
        /\ faiss_manager.index_sizes[name] = ntotal(faiss_manager.indexes[name])

\* --------------------------------------------------------------------- C27
\* C27 as stated (SpecQuery): after retrieve, no record the retriever's store
\* holds has a similarity_score field: each is the record the metadata file
\* holds for its id.
C27_RetrieveLeavesRecords ==
    ret.op = "retrieve" =>
        \A name \in DOMAIN retriever.metadata_store :
            \A id \in DOMAIN retriever.metadata_store[name] :
                "similarity_score" \notin DOMAIN retriever.metadata_store[name][id]

\* --------------------------------------------------------------------- C30
\* C30 as stated (SpecMetadata): a call of add_metadata that raises leaves the
\* store as it was: no record added, no entry for the name created.
C30_RejectedBatchLeavesStore ==
    [][(ret'.op = "add_metadata" /\ ret'.raised # "") =>
          metadata_store' = metadata_store]_vars

\* --------------------------------------------------------------------- C22
\* cosine similarity of two questions of a batch, and whether it reaches the
\* threshold
PairSimilarity(questions, i, j) ==
    InnerProduct(Normalized(Encode(questions[i].text)), Normalized(Encode(questions[j].text)))
Merges(questions, threshold, i, j) ==
    ScoreGE(PairSimilarity(questions, i, j), ThresholdScore(threshold))
\* the groups deduplicate_questions forms on a batch without blank texts
GroupsOf(questions, threshold) ==
    GreedyGroups(1, Len(questions),
                 SimilarityMatrix([i \in DOMAIN questions |-> Encode(questions[i].text)]),
                 threshold, {}, <<>>)
Members(group) == Range(group)
DeduplicatedNormally ==
    /\ ret.op = "deduplicate_questions"
    /\ ret.raised = ""
    /\ ret.arg.keep_all_sources

\* C22 (SpecChunker): when deduplicate_questions (keep_all_sources at its
\* default, True) returns, (1) every input index lies in exactly one group;
\* (2) the groups are in ascending order of their first index, and each lists
\* its members in ascending order; (3) the group whose first index is i holds
\* i and exactly those j > i, in no earlier group, whose similarity to i
\* reaches the threshold; (4) the output has one record per group, in the
\* order of the groups, each carrying the fields of the group's first
\* question unchanged; (5) the record of a group of more than one member has
\* duplicate_count equal to the group's size and an all_sources list with one
\* entry per member, in order; (6) a batch of fewer than two questions is
\* returned as it is.
C22_DedupPartitions ==
    DeduplicatedNormally =>
        LET questions == ret.arg.questions
            threshold == ret.arg.threshold
            n == Len(questions)
            out == ret.val
        IN IF n < 2 THEN out = questions
           ELSE LET G == GroupsOf(questions, threshold)
                    Earlier(g) == UNION { Members(G[h]) : h \in 1..(g - 1) }
                IN /\ \A idx \in 1..n :
                        Cardinality({ g \in DOMAIN G : idx \in Members(G[g]) }) = 1
                   /\ \A g \in DOMAIN G :
                        /\ \A k \in 1..(Len(G[g]) - 1) : G[g][k] < G[g][k + 1]
                        /\ \A h \in DOMAIN G : g < h => G[g][1] < G[h][1]
                        /\ Members(G[g]) =
                              {G[g][1]} \cup
                              { j \in (G[g][1] + 1)..n :
                                   /\ j \notin Earlier(g)
                                   /\ Merges(questions, threshold, G[g][1], j) }
                   /\ Len(out) = Len(G)
                   /\ \A g \in DOMAIN G :
                        /\ \A f \in DOMAIN questions[G[g][1]] :
                              /\ f \in DOMAIN out[g]
                              /\ out[g][f] = questions[G[g][1]][f]
                        /\ Len(G[g]) > 1 =>
                              /\ "duplicate_count" \in DOMAIN out[g]
                              /\ out[g].duplicate_count = Len(G[g])
                              /\ "all_sources" \in DOMAIN out[g]
                              /\ Len(out[g].all_sources) = Len(G[g])
                              /\ \A k \in DOMAIN G[g] :
                                    out[g].all_sources[k] = SourceInfo(questions[G[g][k]])

\* three distinct questions in, two records out: the first two form a group,
\* and the second, already claimed, would have merged with the third
C22_ClaimedItemNotRegrouped ==
    /\ DeduplicatedNormally
    /\ Len(ret.arg.questions) = 3
    /\ Len(ret.val) = 2
    /\ "duplicate_count" \in DOMAIN ret.val[1]
    /\ ret.val[1].duplicate_count = 2
    /\ ret.val[1].source_url # ret.val[1].all_sources[2].source_url
    /\ Merges(ret.arg.questions, ret.arg.threshold, 2, 3)
    /\ ~Merges(ret.arg.questions, ret.arg.threshold, 1, 3)

\* --------------------------------------------------------------------- C23
\* C23 as stated (SpecChunker): in every group deduplicate_questions forms,
\* any two different members have a similarity above the threshold.
C23_GroupsPairwiseSimilar ==
    (ret.op = "deduplicate_questions" /\ ret.raised = "" /\ Len(ret.arg.questions) >= 2) =>
        LET G == GroupsOf(ret.arg.questions, ret.arg.threshold)
        IN \A g \in DOMAIN G :
              \A a, b \in Members(G[g]) :
                 a # b => ScoreGT(PairSimilarity(ret.arg.questions, a, b),
                                  ThresholdScore(ret.arg.threshold))

\* --------------------------------------------------------------------- C25
\* cosine distance of two questions of a batch is at least min_distance
Distant(questions, min_distance, i, j) ==
    FarEnough(PairSimilarity(questions, i, j), min_distance)

\* C25 (SpecChunker): when filter_by_semantic_distance returns, the indices
\* it kept start with the first, ascend, and the output lists the questions at
\* those indices; any two kept questions are at cosine distance at least
\* min_distance; every question it dropped is closer than min_distance to a
\* question kept before it. A batch of fewer than two is returned as it is.
C25_DiverseAndMaximal ==
    (ret.op = "filter_by_semantic_distance" /\ ret.raised = "") =>
        LET questions == ret.arg.questions
            min_distance == ret.arg.min_distance
            selected == ret.val.selected
            kept == Range(selected)
        IN IF Len(questions) < 2 THEN ret.val.filtered = questions
           ELSE /\ selected[1] = 1
                /\ \A k \in 1..(Len(selected) - 1) : selected[k] < selected[k + 1]
                /\ kept \subseteq DOMAIN questions
                /\ ret.val.filtered = [k \in DOMAIN selected |-> questions[selected[k]]]
                /\ \A a, b \in kept : a < b => Distant(questions, min_distance, a, b)
                /\ \A i \in (DOMAIN questions) \ kept :
                      \E a \in kept : a < i /\ ~Distant(questions, min_distance, a, i)

\* of three questions the second was dropped and the third kept
C25_MiddleDropped ==
    /\ ret.op = "filter_by_semantic_distance"
    /\ ret.raised = ""
    /\ Len(ret.arg.questions) = 3
    /\ ret.val.selected = <<1, 3>>

\* --------------------------------------------------------------------- C24
\* the least r with r * r >= n
CeilSqrt(n) == CHOOSE r \in 0..n : r * r >= n /\ (r = 0 \/ (r - 1) * (r - 1) < n)

\* C24 as stated (SpecChunker): cluster_questions raises nothing and gives
\* every input question exactly one label, each cluster listing the questions
\* of its label; with n_clusters not given and n >= 2 questions the number of
\* clusters asked for is max(2, ceil(sqrt(n))), at most n.
C24_ClustersPartitionAndCount ==
    ret.op = "cluster_questions" =>
        LET questions == ret.arg.questions
            n == Len(questions)
        IN /\ ret.raised = ""
           /\ DOMAIN ret.val.labels = DOMAIN questions
           /\ \A label \in DOMAIN ret.val.clusters :
                 ret.val.clusters[label] = Labelled(questions, ret.val.labels, label, 1)
           /\ (ret.arg.n_clusters = <<>> /\ n >= 2) =>
                 ret.val.requested = Min(Max(2, CeilSqrt(n)), n)

\* --------------------------------------------------------------------- C21
\* the calls a run's ingest_node completed, by name
CallNames(state) == [i \in DOMAIN state.calls |-> state.calls[i].call]
SaveCalls == {"save_index", "save_metadata"}
\* the last five calls of a successful ingestion, in the order of the code
SuccessfulTail ==
    <<"add_vectors", "add_metadata", "save_index", "save_metadata", "update_registry">>

\* C21 (SpecWorkflow): (1) a run whose ingestion_success is true completed,
\* as the last calls of its ingest_node and in this order, add_vectors,
\* add_metadata, save_index, save_metadata and the registry update, none of
\* which raised; (2) a run in which save_index or save_metadata raised does
\* not have ingestion_success true; (3) when ingest_node has just returned
\* with ingestion_success true, the three files of the name hold what the
\* graph's manager and store hold in memory, and the registry lists the name.
C21_SavesBeforeSuccess ==
    \A q \in Requests :
        LET state == requests[q]
            names == CallNames(state)
            n == Len(names)
            p == SafeName(state.celebrity_name)
        IN /\ state.ingestion_success =>
                /\ n >= Len(SuccessfulTail)
                /\ SubSeq(names, n - Len(SuccessfulTail) + 1, n) = SuccessfulTail
                /\ \A i \in DOMAIN state.calls : state.calls[i].raised = ""
           /\ (\E i \in DOMAIN state.calls :
                  state.calls[i].call \in SaveCalls /\ state.calls[i].raised # "") =>
                ~state.ingestion_success
           /\ (state.ingestion_success /\ state.node = "retrieve") =>
                /\ Readable(index_files, p)
                /\ index_files[p] = IndexFile(faiss_manager.indexes[state.celebrity_name])
                /\ Readable(size_files, p)
                /\ size_files[p] = SizeFile(faiss_manager.index_sizes[state.celebrity_name])
                /\ Readable(metadata_files, p)
                /\ metadata_files[p] = MetadataFile(metadata_store[state.celebrity_name])
                /\ state.celebrity_name \in DOMAIN load_registry(registry)

\* a second ingestion of the name has just reported success
C21_SecondIngestionReported ==
    \E q \in Requests :
        /\ requests[q].ingestion_success
        /\ requests[q].node = "retrieve"
        /\ Len(index_files[SafeName(requests[q].celebrity_name)].xb) = 2

\* --------------------------------------------------------------------- C29
Ended(state) == state.node \in {"END", "raised"}

\* C29 as stated (SpecWorkflow): a run that has ended visited decision, then
\* ingest if and only if its decision was INGEST, then retrieve, then
\* generate_answer, and has a final answer that is not None.
C29_EveryRunAnswers ==
    \A q \in Requests :
        Ended(requests[q]) =>
            /\ requests[q].final_answer # None
            /\ requests[q].visited =
                  IF requests[q].decision # None /\ Upper(requests[q].decision) = "INGEST"
                  THEN <<"decision", "ingest", "retrieve", "generate_answer">>
                  ELSE <<"decision", "retrieve", "generate_answer">>

\* --------------------------------------------------------------------- C28
\* C28 as stated (SpecConcurrent): when both requests have ended, each with
\* ingestion_success true, the persisted index of the celebrity holds the
\* vectors of both batches and the id alignment of C1 holds for it.
C28_BothBatchesPersisted ==
    (\A q \in Requests : requests[q].node = "END" /\ requests[q].ingestion_success) =>
        \A name \in WorkflowNames :
            LET p == SafeName(name)
            IN /\ Readable(index_files, p)
               /\ \A q \in Requests : \A i \in DOMAIN ThreadQuestions[q] :
                     \E row \in DOMAIN index_files[p].xb :
                        index_files[p].xb[row] = Normalized(Encode(ThreadQuestions[q][i].text))
               /\ Aligned(p)

====
